---- MODULE Spec2Model ----
(***************************************************************************)
(* Walkway network engine of CR-Web-Map: network builder, point insertion  *)
(* and path search of src/public/js/client.js, and the walkway editor of   *)
(* src/unnamed/part_001 and src/public/js/admin.js with its store          *)
(* src/walkwayStore.js.                                                    *)
(*                                                                         *)
(* Conventions of the model                                                *)
(*  - Coordinates are pairs <<x, y>> of integers on a flat plane, one unit *)
(*    per metre; all arithmetic is exact (no floating-point drift).        *)
(*  - JavaScript arrays are 0-based; the sequences here are 1-based, so    *)
(*    node index k of the code is index k+1 here, and the code's `null`    *)
(*    predecessor is 0.                                                    *)
(*  - Edge weights are fixed-point numbers: WeightScale units per metre.   *)
(***************************************************************************)
EXTENDS Integers, Sequences, FiniteSets, TLC

VARIABLES
    walkwaysFc,   \* the walkway feature collection handed to the builder
    graph,        \* {nodes, adjacency, segments} as returned by buildWalkwayGraph
    pc,           \* position of the routing session
    call,         \* the last operation and its arguments
    ret,          \* what that operation returned
    infos,        \* startInfo and endInfo of recomputeRoute, as far as computed
    snapLimit,    \* the snap limit the session passes to insertPointIntoGraph
    store,            \* the rows of the walkways table, as feature records
    walkwayFeatures,  \* the editor's in-memory list of walkway features
    walkwayLayer,     \* the editor's layer objects, each with its feature
    segmentHandles,   \* the drag handles on the map and what they captured
    selected,         \* selectedWalkwayLayer (0: none)
    multiSelection,   \* the identifiers picked for bulk deletion
    nextId,           \* the next identifier makeId hands out
    snapNodes,        \* the editor's `nodes` array for snapping drawn vertices
    edits,            \* how many operations the editing session has performed
    featuresFile,     \* the content of data/features.json of the file-backed store
    tablesReady,      \* the flag of that name in walkwayStore.js
    tasks             \* the calls of the server that are under way, each with its position

editorVars == <<store, walkwayFeatures, walkwayLayer, segmentHandles, selected,
                multiSelection, nextId, snapNodes, edits>>

serverVars == <<featuresFile, tablesReady, tasks>>

vars == <<walkwaysFc, graph, pc, call, ret, infos, snapLimit, editorVars, serverVars>>

(***************************************************************************)
(* Bounds                                                                  *)
(***************************************************************************)
MaxNodes  == 3      \* nodes of an arbitrary graph handed to path search
MaxEdges  == 2      \* adjacency entries of such a graph
MaxWeight == 2      \* largest weight of such an entry
GridFar   == 4      \* the far coordinate value of the walkway grid
MaxWalkways == 2    \* walkways handed to the builder on its own
WeightScale == 100  \* fixed-point weight units per metre

\* connectNearbyNodes(mapInst, nodes, adjacency, 2)
toleranceMeters == 2

Null == [kind |-> "null"]

EmptyGraph == [nodes |-> <<>>, adjacency |-> <<>>, segments |-> <<>>]

(***************************************************************************)
(* Path search: dijkstraShortestPath                                       *)
(***************************************************************************)
\* Infinity of the dist array; a finite entry carries its value.
Infinity == [fin |-> FALSE, val |-> 0]
Finite(v) == [fin |-> TRUE, val |-> v]

\* a < b on the entries of dist
Less(a, b) == a.fin /\ (~b.fin \/ a.val < b.val)

\* the scan `for i: if (!visited[i] && dist[i] < best)`: the first unvisited
\* index with the smallest finite dist, 0 (the code's -1) when there is none
SelectMinStartsAtOne(n, dist, visited) ==
    LET cand == {i \in 2..n : i \notin visited /\ dist[i].fin}
    IN IF cand = {} THEN 0
       ELSE CHOOSE i \in cand :
              \A j \in cand : ~Less(dist[j], dist[i]) /\ (dist[j] = dist[i] => i <= j)

SelectMin(n, dist, visited) ==
    LET cand == {i \in 1..n : i \notin visited /\ dist[i].fin}
    IN IF cand = {} THEN 0
       ELSE CHOOSE i \in cand :
              \A j \in cand : ~Less(dist[j], dist[i]) /\ (dist[j] = dist[i] => i <= j)

\* the loop `for (const edge of edges)`: relax the entries of u in order
RECURSIVE Relax(_, _, _, _, _)
Relax(edges, k, u, dist, prev) ==
    IF k > Len(edges) THEN [dist |-> dist, prev |-> prev]
    ELSE LET v   == edges[k].to
             alt == Finite(dist[u].val + edges[k].weight)
         IN IF Less(alt, dist[v])
            THEN Relax(edges, k + 1, u,
                       [dist EXCEPT ![v] = alt], [prev EXCEPT ![v] = u])
            ELSE Relax(edges, k + 1, u, dist, prev)

\* graph.adjacency.get(u) || []
AdjacencyOf(g, u) ==
    IF u \in DOMAIN g.adjacency THEN g.adjacency[u] ELSE <<>>

\* the `while (true)` loop
RECURSIVE DijkstraLoop(_, _, _, _, _)
DijkstraLoop(g, endIndex, dist, prev, visited) ==
    LET u == SelectMin(Len(g.nodes), dist, visited)
    IN IF u = 0 \/ u = endIndex
       THEN [dist |-> dist, prev |-> prev]
       ELSE LET r == Relax(AdjacencyOf(g, u), 1, u, dist, prev)
            IN DijkstraLoop(g, endIndex, r.dist, r.prev, visited \cup {u})

\* `while (cur != null) { path.push(cur); cur = prev[cur]; }` then reverse
RECURSIVE WalkBack(_, _)
WalkBack(prev, cur) ==
    IF cur = 0 THEN <<>> ELSE Append(WalkBack(prev, prev[cur]), cur)

RECURSIVE WalkBackNoReverse(_, _)
WalkBackNoReverse(prev, cur) ==
    IF cur = 0 THEN <<>> ELSE <<cur>> \o WalkBackNoReverse(prev, prev[cur])

RECURSIVE WalkBackDropsStart(_, _)
WalkBackDropsStart(prev, cur) ==
    IF prev[cur] = 0 THEN <<>> ELSE Append(WalkBackDropsStart(prev, prev[cur]), cur)

ReconstructPathNoReverse(prev, endIndex) == WalkBackNoReverse(prev, endIndex)

ReconstructPathDropsStart(prev, endIndex) == WalkBackDropsStart(prev, endIndex)

ReconstructPath(prev, endIndex) == WalkBack(prev, endIndex)

\* dist, prev as filled before the loop
DijkstraInit(g, startIndex) ==
    [dist |-> [i \in 1..Len(g.nodes) |->
                  IF i = startIndex THEN Finite(0) ELSE Infinity],
     prev |-> [i \in 1..Len(g.nodes) |-> 0]]

dijkstraShortestPath(g, startIndex, endIndex) ==
    LET i0 == DijkstraInit(g, startIndex)
        r  == DijkstraLoop(g, endIndex, i0.dist, i0.prev, {})
    IN IF ~r.dist[endIndex].fin THEN Null
       ELSE [kind     |-> "route",
             distance |-> r.dist[endIndex].val,
             path     |-> ReconstructPath(r.prev, endIndex)]

(***************************************************************************)
(* Geometry used by the builder and by point insertion                     *)
(***************************************************************************)
Abs(x) == IF x < 0 THEN -x ELSE x

\* squared planar distance between two coordinates, in square metres
Dist2(a, b) == (a[1] - b[1]) * (a[1] - b[1]) + (a[2] - b[2]) * (a[2] - b[2])

\* floor of the square root, by bisection on lo <= r < hi
RECURSIVE SqrtBetween(_, _, _)
SqrtBetween(n, lo, hi) ==
    IF hi - lo <= 1 THEN lo
    ELSE LET mid == (lo + hi) \div 2
         IN IF mid * mid <= n THEN SqrtBetween(n, mid, hi)
            ELSE SqrtBetween(n, lo, mid)

\* the planar distance between a and b as a fixed-point weight, rounded down
\* (it is at most the sum of the two coordinate differences)
FixedDistance(a, b) ==
    SqrtBetween(WeightScale * WeightScale * Dist2(a, b), 0,
                WeightScale * (Abs(a[1] - b[1]) + Abs(a[2] - b[2])) + 1)

\* turf.distance(A, B, { units: "kilometers" })
turfDistance(a, b) == FixedDistance(a, b)

\* mapInst.distance(a, b) / 1000
mapDistanceWeight(a, b) == FixedDistance(a, b)

\* as lineIntersect, but a meeting at an end point of either line is missed
lineIntersectStrict(A, B, C, D) ==
    LET denom == (D[2] - C[2]) * (B[1] - A[1]) - (D[1] - C[1]) * (B[2] - A[2])
        numeA == (D[1] - C[1]) * (A[2] - C[2]) - (D[2] - C[2]) * (A[1] - C[1])
        numeB == (B[1] - A[1]) * (A[2] - C[2]) - (B[2] - A[2]) * (A[1] - C[1])
        within(n) == IF denom > 0 THEN 0 < n /\ n < denom
                     ELSE denom < n /\ n < 0
    IN IF denom = 0 THEN <<>>
       ELSE IF within(numeA) /\ within(numeB)
            THEN << <<A[1] + (numeA * (B[1] - A[1])) \div denom,
                      A[2] + (numeA * (B[2] - A[2])) \div denom>> >>
            ELSE <<>>

\* turf.lineIntersect on the two-point lines AB and CD: the crossing point of
\* two non-parallel segments that meet (end points included), else nothing
lineIntersect(A, B, C, D) ==
    LET denom == (D[2] - C[2]) * (B[1] - A[1]) - (D[1] - C[1]) * (B[2] - A[2])
        numeA == (D[1] - C[1]) * (A[2] - C[2]) - (D[2] - C[2]) * (A[1] - C[1])
        numeB == (B[1] - A[1]) * (A[2] - C[2]) - (B[2] - A[2]) * (A[1] - C[1])
        within(n) == IF denom > 0 THEN 0 <= n /\ n <= denom
                     ELSE denom <= n /\ n <= 0
    IN IF denom = 0 THEN <<>>
       ELSE IF within(numeA) /\ within(numeB)
            THEN << <<A[1] + (numeA * (B[1] - A[1])) \div denom,
                      A[2] + (numeA * (B[2] - A[2])) \div denom>> >>
            ELSE <<>>

\* computeT(a, b, p): the clamped parameter of p along ab, kept as the
\* numerator over |ab|^2 (0 for a zero-length segment, whose divisor is 1e-12)
computeT(a, b, p) ==
    LET vx == b[1] - a[1]
        vy == b[2] - a[2]
        vv == vx * vx + vy * vy
        num == vx * (p[1] - a[1]) + vy * (p[2] - a[2])
    IN IF vv = 0 THEN 0
       ELSE IF num < 0 THEN 0 ELSE IF num > vv THEN vv ELSE num

(***************************************************************************)
(* Network builder: buildWalkwayGraph                                      *)
(***************************************************************************)
\* raw.forEach: keep the line strings of at least two coordinates
FilterWalkways(raw) == SelectSeq(raw, LAMBDA c : Len(c) >= 2)

\* the intersection items pushed for segment si of walkway wi while walkway wj
\* is its partner, for the partner's segments sj, sj+1, ...
RECURSIVE HitsWithWalkway(_, _, _, _, _)
HitsWithWalkway(ws, wi, si, wj, sj) ==
    IF sj > Len(ws[wj]) - 1 THEN <<>>
    ELSE LET A == ws[wi][si]
             B == ws[wi][si + 1]
             C == ws[wj][sj]
             D == ws[wj][sj + 1]
             \* the pair loop always passes the lower walkway first
             pts == IF wi < wj THEN lineIntersect(A, B, C, D)
                    ELSE lineIntersect(C, D, A, B)
             items == [k \in 1..Len(pts) |->
                          [coord |-> pts[k], t |-> computeT(A, B, pts[k])]]
         IN items \o HitsWithWalkway(ws, wi, si, wj, sj + 1)

\* segmentIntersections.get(segKey(wi, si)): the items in the order pushed
RECURSIVE SegmentIntersections(_, _, _, _)
SegmentIntersections(ws, wi, si, wj) ==
    IF wj > Len(ws) THEN <<>>
    ELSE (IF wj = wi THEN <<>> ELSE HitsWithWalkway(ws, wi, si, wj, 1))
         \o SegmentIntersections(ws, wi, si, wj + 1)

\* list.sort(function (a, b) { return a.t - b.t; }): stable, ascending in t
RECURSIVE InsertByT(_, _)
InsertByT(sorted, item) ==
    IF sorted = <<>> THEN <<item>>
    ELSE IF sorted[Len(sorted)].t <= item.t THEN Append(sorted, item)
    ELSE Append(InsertByT(SubSeq(sorted, 1, Len(sorted) - 1), item),
                sorted[Len(sorted)])

RECURSIVE SortByT(_)
SortByT(list) ==
    IF list = <<>> THEN <<>>
    ELSE InsertByT(SortByT(SubSeq(list, 1, Len(list) - 1)), list[Len(list)])

\* list.forEach: push the item unless it lies on the last coordinate pushed
\* (dx > 1e-10 || dy > 1e-10, which on whole metres is: differs at all)
RECURSIVE PushIntersections(_, _, _)
PushIntersections(out, list, k) ==
    IF k > Len(list) THEN out
    ELSE LET c == list[k].coord
             last == out[Len(out)]
         IN IF Abs(c[1] - last[1]) > 0 \/ Abs(c[2] - last[2]) > 0
            THEN PushIntersections(Append(out, c), list, k + 1)
            ELSE PushIntersections(out, list, k + 1)

\* the loop over the segments of one walkway: push A, then its intersections
RECURSIVE EnrichFrom(_, _, _, _)
EnrichFrom(ws, wi, si, out) ==
    IF si > Len(ws[wi]) - 1 THEN Append(out, ws[wi][Len(ws[wi])])
    ELSE EnrichFrom(ws, wi, si + 1,
             PushIntersections(Append(out, ws[wi][si]),
                               SortByT(SegmentIntersections(ws, wi, si, 1)), 1))

\* the walkways without any intersection point inserted
EnrichNone(ws) == ws

\* walkways.forEach(... w.coords = out): every walkway refined
Enrich(ws) == [wi \in 1..Len(ws) |-> EnrichFrom(ws, wi, 1, <<>>)]

\* position of coord in nodes, 0 when it is not a node
IndexOf(nodes, coord) ==
    IF \E i \in 1..Len(nodes) : nodes[i] = coord
    THEN CHOOSE i \in 1..Len(nodes) : nodes[i] = coord
    ELSE 0

\* as getNodeIndex, but without the lookup of the coordinate key
getNodeIndexNoDedup(g, coord) ==
    [g EXCEPT !.nodes = Append(@, coord), !.adjacency = Append(@, <<>>)]

\* getNodeIndex(coord) for its effect: the node is appended on first encounter
getNodeIndex(g, coord) ==
    IF IndexOf(g.nodes, coord) # 0 THEN g
    ELSE [g EXCEPT !.nodes = Append(@, coord), !.adjacency = Append(@, <<>>)]

RECURSIVE AddNodes(_, _, _)
AddNodes(g, coords, k) ==
    IF k > Len(coords) THEN g
    ELSE AddNodes(getNodeIndex(g, coords[k]), coords, k + 1)

\* as AddEdges, but the loop stops one pair short
RECURSIVE AddEdgesSkipsLast(_, _, _)
AddEdgesSkipsLast(g, coords, i) ==
    IF i > Len(coords) - 2 THEN g
    ELSE LET ia == IndexOf(g.nodes, coords[i])
             ib == IndexOf(g.nodes, coords[i + 1])
             wKm == turfDistance(coords[i], coords[i + 1])
             adj1 == [g.adjacency EXCEPT ![ia] = Append(@, [to |-> ib, weight |-> wKm])]
             adj2 == [adj1 EXCEPT ![ib] = Append(@, [to |-> ia, weight |-> wKm])]
             seg == [a |-> ia, b |-> ib, coordA |-> coords[i], coordB |-> coords[i + 1]]
         IN AddEdgesSkipsLast([g EXCEPT !.adjacency = adj2, !.segments = Append(@, seg)],
                              coords, i + 1)

\* the loop over consecutive coordinates of one walkway: two adjacency
\* entries and one segment per pair
RECURSIVE AddEdges(_, _, _)
AddEdges(g, coords, i) ==
    IF i > Len(coords) - 1 THEN g
    ELSE LET ia == IndexOf(g.nodes, coords[i])
             ib == IndexOf(g.nodes, coords[i + 1])
             wKm == turfDistance(coords[i], coords[i + 1])
             adj1 == [g.adjacency EXCEPT ![ia] = Append(@, [to |-> ib, weight |-> wKm])]
             adj2 == [adj1 EXCEPT ![ib] = Append(@, [to |-> ia, weight |-> wKm])]
             seg == [a |-> ia, b |-> ib, coordA |-> coords[i], coordB |-> coords[i + 1]]
         IN AddEdges([g EXCEPT !.adjacency = adj2, !.segments = Append(@, seg)],
                     coords, i + 1)

\* walkways.forEach(function (w) {...}) of the graph-building pass
RECURSIVE AddWalkways(_, _, _)
AddWalkways(g, ws, wi) ==
    IF wi > Len(ws) THEN g
    ELSE IF Len(ws[wi]) < 2 THEN AddWalkways(g, ws, wi + 1)
    ELSE AddWalkways(AddEdges(AddNodes(g, ws[wi], 1), ws[wi], 1), ws, wi + 1)

\* connectNearbyNodes: the pairs i < j in loop order, bridged when d <= tolerance
RECURSIVE ConnectFrom(_, _, _, _)
ConnectFrom(nodes, adjacency, i, j) ==
    IF i > Len(nodes) THEN adjacency
    ELSE IF j > Len(nodes) THEN ConnectFrom(nodes, adjacency, i + 1, i + 2)
    ELSE IF Dist2(nodes[i], nodes[j]) <= toleranceMeters * toleranceMeters
         THEN LET d == mapDistanceWeight(nodes[i], nodes[j])
                  adj1 == [adjacency EXCEPT ![i] = Append(@, [to |-> j, weight |-> d])]
                  adj2 == [adj1 EXCEPT ![j] = Append(@, [to |-> i, weight |-> d])]
              IN ConnectFrom(nodes, adj2, i, j + 1)
         ELSE ConnectFrom(nodes, adjacency, i, j + 1)

connectNearbyNodes(nodes, adjacency) == ConnectFrom(nodes, adjacency, 1, 2)

buildWalkwayGraph(fc) ==
    LET g == AddWalkways(EmptyGraph, Enrich(FilterWalkways(fc)), 1)
    IN [g EXCEPT !.adjacency = connectNearbyNodes(g.nodes, g.adjacency)]

(***************************************************************************)
(* Point insertion: insertPointIntoGraph                                   *)
(***************************************************************************)
\* the projection of the target onto segment seg, clamped to its end points
\* (mapInst.project / unproject are the plane of the model)
ProjectOnto(seg, target) ==
    LET A == seg.coordA
        B == seg.coordB
        vx == B[1] - A[1]
        vy == B[2] - A[2]
        vv == vx * vx + vy * vy
        t == computeT(A, B, target)
    IN IF vv = 0 THEN A
       ELSE <<A[1] + (t * vx) \div vv, A[2] + (t * vy) \div vv>>

\* graph.segments.forEach: the first segment whose projection is closest
RECURSIVE BestFrom(_, _, _, _)
BestFrom(segments, target, idx, best) ==
    IF idx > Len(segments) THEN best
    ELSE LET p == ProjectOnto(segments[idx], target)
             d2 == Dist2(target, p)
         IN IF best.segIndex = 0 \/ d2 < best.dist2
            THEN BestFrom(segments, target, idx + 1,
                          [segIndex |-> idx, snappedCoord |-> p, dist2 |-> d2])
            ELSE BestFrom(segments, target, idx + 1, best)

BestSegment(g, target) ==
    BestFrom(g.segments, target, 1,
             [segIndex |-> 0, snappedCoord |-> target, dist2 |-> 0])

\* maxSnapMeters && best.dist > maxSnapMeters
TooFar(best, maxSnapMeters) ==
    maxSnapMeters # 0 /\ best.dist2 > maxSnapMeters * maxSnapMeters

\* as almostEqual, but never true
almostEqualNever(c1, c2) == FALSE

\* almostEqual(c1, c2): both differences below 1e-10
almostEqual(c1, c2) == Abs(c1[1] - c2[1]) = 0 /\ Abs(c1[2] - c2[2]) = 0

\* adjacency list without its entries to node v
WithoutEntriesTo(list, v) == SelectSeq(list, LAMBDA e : e.to # v)

\* array.splice(k, 1)
RemoveAt(seq, k) == SubSeq(seq, 1, k - 1) \o SubSeq(seq, k + 1, Len(seq))

\* as SplitSegment, but the new node gets no entry back to node b
SplitSegmentOneWay(g, best) ==
    LET seg == g.segments[best.segIndex]
        snapped == best.snappedCoord
        ia == seg.a
        ib == seg.b
        newIndex == Len(g.nodes) + 1
        dA == turfDistance(seg.coordA, snapped)
        dB == turfDistance(snapped, seg.coordB)
        adj0 == Append(g.adjacency, <<>>)
        adj1 == [adj0 EXCEPT ![ia] = WithoutEntriesTo(@, ib)]
        adj2 == [adj1 EXCEPT ![ib] = WithoutEntriesTo(@, ia)]
        adj3 == [adj2 EXCEPT ![ia] = Append(@, [to |-> newIndex, weight |-> dA])]
        adj4 == [adj3 EXCEPT ![newIndex] = Append(@, [to |-> ia, weight |-> dA])]
        adj5 == [adj4 EXCEPT ![ib] = Append(@, [to |-> newIndex, weight |-> dB])]
        segs == RemoveAt(g.segments, best.segIndex)
                \o <<[a |-> ia, b |-> newIndex, coordA |-> seg.coordA, coordB |-> snapped],
                     [a |-> newIndex, b |-> ib, coordA |-> snapped, coordB |-> seg.coordB]>>
    IN [nodes |-> Append(g.nodes, snapped), adjacency |-> adj5, segments |-> segs]

\* as SplitSegment, but the split segment stays in the edge list
SplitSegmentKeepsOld(g, best) ==
    LET seg == g.segments[best.segIndex]
        snapped == best.snappedCoord
        ia == seg.a
        ib == seg.b
        newIndex == Len(g.nodes) + 1
        dA == turfDistance(seg.coordA, snapped)
        dB == turfDistance(snapped, seg.coordB)
        adj0 == Append(g.adjacency, <<>>)
        adj1 == [adj0 EXCEPT ![ia] = WithoutEntriesTo(@, ib)]
        adj2 == [adj1 EXCEPT ![ib] = WithoutEntriesTo(@, ia)]
        adj3 == [adj2 EXCEPT ![ia] = Append(@, [to |-> newIndex, weight |-> dA])]
        adj4 == [adj3 EXCEPT ![newIndex] = Append(@, [to |-> ia, weight |-> dA])]
        adj5 == [adj4 EXCEPT ![ib] = Append(@, [to |-> newIndex, weight |-> dB])]
        adj6 == [adj5 EXCEPT ![newIndex] = Append(@, [to |-> ib, weight |-> dB])]
        segs == g.segments
                \o <<[a |-> ia, b |-> newIndex, coordA |-> seg.coordA, coordB |-> snapped],
                     [a |-> newIndex, b |-> ib, coordA |-> snapped, coordB |-> seg.coordB]>>
    IN [nodes |-> Append(g.nodes, snapped), adjacency |-> adj6, segments |-> segs]

\* as SplitSegment, but the entry from the new node to b carries the weight
\* of the part towards a
SplitSegmentMixedWeights(g, best) ==
    LET seg == g.segments[best.segIndex]
        snapped == best.snappedCoord
        ia == seg.a
        ib == seg.b
        newIndex == Len(g.nodes) + 1
        dA == turfDistance(seg.coordA, snapped)
        dB == turfDistance(snapped, seg.coordB)
        adj0 == Append(g.adjacency, <<>>)
        adj1 == [adj0 EXCEPT ![ia] = WithoutEntriesTo(@, ib)]
        adj2 == [adj1 EXCEPT ![ib] = WithoutEntriesTo(@, ia)]
        adj3 == [adj2 EXCEPT ![ia] = Append(@, [to |-> newIndex, weight |-> dA])]
        adj4 == [adj3 EXCEPT ![newIndex] = Append(@, [to |-> ia, weight |-> dA])]
        adj5 == [adj4 EXCEPT ![ib] = Append(@, [to |-> newIndex, weight |-> dB])]
        adj6 == [adj5 EXCEPT ![newIndex] = Append(@, [to |-> ib, weight |-> dA])]
        segs == RemoveAt(g.segments, best.segIndex)
                \o <<[a |-> ia, b |-> newIndex, coordA |-> seg.coordA, coordB |-> snapped],
                     [a |-> newIndex, b |-> ib, coordA |-> snapped, coordB |-> seg.coordB]>>
    IN [nodes |-> Append(g.nodes, snapped), adjacency |-> adj6, segments |-> segs]

\* the split of segment best.segIndex at best.snappedCoord
SplitSegment(g, best) ==
    LET seg == g.segments[best.segIndex]
        snapped == best.snappedCoord
        ia == seg.a
        ib == seg.b
        newIndex == Len(g.nodes) + 1
        dA == turfDistance(seg.coordA, snapped)
        dB == turfDistance(snapped, seg.coordB)
        adj0 == Append(g.adjacency, <<>>)
        adj1 == [adj0 EXCEPT ![ia] = WithoutEntriesTo(@, ib)]
        adj2 == [adj1 EXCEPT ![ib] = WithoutEntriesTo(@, ia)]
        adj3 == [adj2 EXCEPT ![ia] = Append(@, [to |-> newIndex, weight |-> dA])]
        adj4 == [adj3 EXCEPT ![newIndex] = Append(@, [to |-> ia, weight |-> dA])]
        adj5 == [adj4 EXCEPT ![ib] = Append(@, [to |-> newIndex, weight |-> dB])]
        adj6 == [adj5 EXCEPT ![newIndex] = Append(@, [to |-> ib, weight |-> dB])]
        segs == RemoveAt(g.segments, best.segIndex)
                \o <<[a |-> ia, b |-> newIndex, coordA |-> seg.coordA, coordB |-> snapped],
                     [a |-> newIndex, b |-> ib, coordA |-> snapped, coordB |-> seg.coordB]>>
    IN [nodes |-> Append(g.nodes, snapped), adjacency |-> adj6, segments |-> segs]

\* the value returned and the graph as the call leaves it
insertPointIntoGraph(g, coord, maxSnapMeters) ==
    IF Len(g.segments) = 0 THEN [ret |-> Null, graph |-> g]
    ELSE LET best == BestSegment(g, coord)
             seg == g.segments[best.segIndex]
         IN IF TooFar(best, maxSnapMeters) THEN [ret |-> Null, graph |-> g]
            ELSE IF almostEqual(best.snappedCoord, seg.coordA)
            THEN [ret |-> [kind |-> "node", nodeIndex |-> seg.a,
                           snapped |-> seg.coordA, dist2 |-> best.dist2],
                  graph |-> g]
            ELSE IF almostEqual(best.snappedCoord, seg.coordB)
            THEN [ret |-> [kind |-> "node", nodeIndex |-> seg.b,
                           snapped |-> seg.coordB, dist2 |-> best.dist2],
                  graph |-> g]
            ELSE [ret |-> [kind |-> "node", nodeIndex |-> Len(g.nodes) + 1,
                           snapped |-> best.snappedCoord, dist2 |-> best.dist2],
                  graph |-> SplitSegment(g, best)]

(***************************************************************************)
(* Inputs                                                                  *)
(***************************************************************************)
\* coordinate values: two close together and one far from both
CoordVals == {0, 1, GridFar}

GridPoints == CoordVals \X CoordVals

\* two-point walkways along a grid line, in both directions
TwoPointWalkways ==
    {w \in {<<a, b>> : a \in GridPoints, b \in GridPoints} :
        w[2] # w[1] /\ (w[2][1] = w[1][1] \/ w[2][2] = w[1][2])}

\* three-point walkways along grid lines that leave the origin
ThreePointWalkways ==
    {w \in {<<a, b, c>> : a \in {<<0, 0>>}, b \in GridPoints, c \in GridPoints} :
        /\ w[2] # w[1] /\ (w[2][1] = w[1][1] \/ w[2][2] = w[1][2])
        /\ w[3] # w[2] /\ (w[3][1] = w[2][1] \/ w[3][2] = w[2][2])}

\* a record whose line has a single coordinate, which the builder skips
ShortWalkway == << <<1, 1>> >>

\* the walkways of the worked example: a horizontal and a vertical line
\* crossing at (5, 0)
ExampleWalkways == << << <<0, 0>>, <<10, 0>> >>, << <<5, -5>>, <<5, 5>> >> >>

BuilderPool == TwoPointWalkways \cup ThreePointWalkways \cup {ShortWalkway}

\* a collection whose second walkway leaves the world: latitude 91
StrayWalkways == << << <<0, 0>>, <<1, 0>> >>, << <<0, 0>>, <<0, 91>> >> >>

\* two walkways that do not meet and whose nearest ends lie exactly
\* toleranceMeters apart
ApartWalkways ==
    << << <<0, 0>>, <<0, 1>> >>, << <<toleranceMeters, 0>>, <<toleranceMeters, 1>> >> >>

BuilderInputs ==
    UNION {[1..k -> BuilderPool] : k \in 0..MaxWalkways}
        \cup {ExampleWalkways, StrayWalkways, ApartWalkways}

\* a session sees at most two walkways; the plane can be turned so that the
\* first of two runs along x
SessionInputs ==
    {<<a, b>> : a \in {w \in TwoPointWalkways : w[1][2] = w[2][2]},
                b \in TwoPointWalkways}
    \cup {<<a>> : a \in TwoPointWalkways} \cup {<<>>, ExampleWalkways}

\* coordinates the visitor may pick as start or end
ClickCoords == GridPoints \cup {<<10, 0>>}

\* const MAX_SNAP_METERS = 150
MAX_SNAP_METERS == 150

\* snap limits a session may run with: none (0), one metre, the routing
\* panel's own
SnapLimits == {0, 1, MAX_SNAP_METERS}

(***************************************************************************)
(* The builder on its own                                                  *)
(***************************************************************************)
\* no editor is open
NoHandles == [layer |-> 0, control |-> <<>>, handle |-> <<>>, dragging |-> <<>>]

\* no call of the server is under way
ServerUnused ==
    /\ featuresFile = <<>>
    /\ tablesReady = FALSE
    /\ tasks = <<>>

EditorUnused ==
    /\ store = {}
    /\ walkwayFeatures = <<>>
    /\ walkwayLayer = <<>>
    /\ segmentHandles = NoHandles
    /\ selected = 0
    /\ multiSelection = {}
    /\ nextId = 1
    /\ snapNodes = <<>>
    /\ edits = 0

InitBuild ==
    /\ walkwaysFc \in BuilderInputs
    /\ graph = EmptyGraph
    /\ pc = "idle"
    /\ call = [op |-> "none"]
    /\ ret = Null
    /\ infos = <<>>
    /\ snapLimit = MAX_SNAP_METERS
    /\ EditorUnused
    /\ ServerUnused

\* const graph = buildWalkwayGraph(mapInst, walkwaysFc)
Build ==
    /\ pc = "idle"
    /\ graph' = buildWalkwayGraph(walkwaysFc)
    /\ pc' = IF Len(graph'.nodes) = 0 THEN "done" ELSE "built"
    /\ call' = [op |-> "build"]
    /\ ret' = Null
    /\ UNCHANGED <<serverVars, walkwaysFc, infos, snapLimit, editorVars>>

NextBuild == Build

SpecBuild == InitBuild /\ [][NextBuild]_vars

(***************************************************************************)
(* A routing session: recomputeRoute                                       *)
(***************************************************************************)
Init ==
    /\ walkwaysFc \in SessionInputs
    /\ graph = EmptyGraph
    /\ pc = "idle"
    /\ call = [op |-> "none"]
    /\ ret = Null
    /\ infos = <<>>
    /\ snapLimit \in SnapLimits
    /\ EditorUnused
    /\ ServerUnused

\* const startInfo = insertPointIntoGraph(mapInst, graph, startCoord, ...)
InsertStart(coord) ==
    /\ pc = "built"
    /\ LET r == insertPointIntoGraph(graph, coord, snapLimit)
       IN /\ graph' = r.graph
          /\ ret' = r.ret
          /\ infos' = Append(infos, r.ret)
    /\ call' = [op |-> "insert", coord |-> coord, maxSnapMeters |-> snapLimit]
    /\ pc' = "startInserted"
    /\ UNCHANGED <<serverVars, walkwaysFc, snapLimit, editorVars>>

\* const endInfo = insertPointIntoGraph(mapInst, graph, endCoord, ...)
InsertEnd(coord) ==
    /\ pc = "startInserted"
    /\ LET r == insertPointIntoGraph(graph, coord, snapLimit)
       IN /\ graph' = r.graph
          /\ ret' = r.ret
          /\ infos' = Append(infos, r.ret)
    /\ call' = [op |-> "insert", coord |-> coord, maxSnapMeters |-> snapLimit]
    /\ pc' = "endInserted"
    /\ UNCHANGED <<serverVars, walkwaysFc, snapLimit, editorVars>>

\* if (!startInfo || !endInfo) return
TooFarFromWalkway ==
    /\ pc = "endInserted"
    /\ infos[1] = Null \/ infos[2] = Null
    /\ pc' = "done"
    /\ UNCHANGED <<serverVars, walkwaysFc, graph, call, ret, infos, snapLimit, editorVars>>

\* const result = dijkstraShortestPath(graph, startInfo.nodeIndex, endInfo.nodeIndex)
Route ==
    /\ pc = "endInserted"
    /\ infos[1] # Null /\ infos[2] # Null
    /\ call' = [op |-> "dijkstra", start |-> infos[1].nodeIndex,
                end |-> infos[2].nodeIndex]
    /\ ret' = dijkstraShortestPath(graph, infos[1].nodeIndex, infos[2].nodeIndex)
    /\ pc' = "routed"
    /\ UNCHANGED <<serverVars, walkwaysFc, graph, infos, snapLimit, editorVars>>

Next ==
    \/ Build
    \/ \E c \in ClickCoords : InsertStart(c)
    \/ \E c \in ClickCoords : InsertEnd(c)
    \/ TooFarFromWalkway
    \/ Route

Spec == Init /\ [][Next]_vars

(***************************************************************************)
(* Path search over arbitrary graphs                                       *)
(***************************************************************************)
\* an adjacency entry u -> v of weight w, as listed in insertion order
ArcSet == [from : 1..MaxNodes, to : 1..MaxNodes, weight : {0, 1, MaxWeight}]

\* the entries of one node keep their order; entries of different nodes are
\* listed by node, since their relative order is not part of the graph
ArcLists ==
    {a \in UNION {[1..k -> ArcSet] : k \in 0..MaxEdges} :
        \A k \in 1..(Len(a) - 1) : a[k].from <= a[k + 1].from}

SelectArcs(arcs, u) == SelectSeq(arcs, LAMBDA e : e.from = u)

\* the graph whose adjacency lists hold the arcs in the order given
GraphOfArcs(arcs) ==
    [nodes     |-> [i \in 1..MaxNodes |-> <<i, 0>>],
     adjacency |-> [u \in 1..MaxNodes |->
                      [k \in 1..Len(SelectArcs(arcs, u)) |->
                          [to |-> SelectArcs(arcs, u)[k].to,
                           weight |-> SelectArcs(arcs, u)[k].weight]]],
     segments  |-> <<>>]

InitPath ==
    /\ walkwaysFc = <<>>
    /\ graph \in {GraphOfArcs(a) : a \in ArcLists}
    /\ pc = "graph"
    /\ call = [op |-> "none"]
    /\ ret = Null
    /\ infos = <<>>
    /\ snapLimit = MAX_SNAP_METERS
    /\ EditorUnused
    /\ ServerUnused

RunDijkstra(s, e) ==
    /\ pc = "graph"
    /\ call' = [op |-> "dijkstra", start |-> s, end |-> e]
    /\ ret' = dijkstraShortestPath(graph, s, e)
    /\ pc' = "routed"
    /\ UNCHANGED <<serverVars, walkwaysFc, graph, infos, snapLimit, editorVars>>

NextPath ==
    \E s \in 1..Len(graph.nodes), e \in 1..Len(graph.nodes) : RunDijkstra(s, e)

SpecPath == InitPath /\ [][NextPath]_vars

(***************************************************************************)
(* Reference definitions for path search                                   *)
(***************************************************************************)
\* every adjacency entry of g as <<u, v, w>>
Entries(g) ==
    UNION {{<<u, g.adjacency[u][k].to, g.adjacency[u][k].weight>> :
               k \in DOMAIN g.adjacency[u]} : u \in DOMAIN g.adjacency}

\* nodes reachable from the set S by following adjacency entries
RECURSIVE ReachableFrom(_, _)
ReachableFrom(g, S) ==
    LET T == S \cup {e[2] : e \in {x \in Entries(g) : x[1] \in S}}
    IN IF T = S THEN S ELSE ReachableFrom(g, T)

MinOf(S) == CHOOSE m \in S : \A x \in S : m <= x

\* least total weight of a walk from s to v with at most k entries
\* (-1 when there is none)
RECURSIVE MinWalk(_, _, _, _)
MinWalk(g, s, v, k) ==
    IF k = 0 THEN (IF v = s THEN 0 ELSE -1)
    ELSE LET via == {MinWalk(g, s, e[1], k - 1) + e[3] :
                        e \in {x \in Entries(g) :
                                  x[2] = v /\ MinWalk(g, s, x[1], k - 1) >= 0}}
             stay == MinWalk(g, s, v, k - 1)
             all == via \cup (IF stay >= 0 THEN {stay} ELSE {})
         IN IF all = {} THEN -1 ELSE MinOf(all)

\* least total weight over all paths from s to v
MinPathWeight(g, s, v) == MinWalk(g, s, v, Len(g.nodes) - 1)

\* the total weights obtainable along the node sequence p by picking, for each
\* consecutive pair, one adjacency entry joining it ({} when a pair is not joined)
RECURSIVE PathSums(_, _)
PathSums(g, p) ==
    IF Len(p) <= 1 THEN {0}
    ELSE {e[3] + r : e \in {x \in Entries(g) : x[1] = p[1] /\ x[2] = p[2]},
                     r \in PathSums(g, Tail(p))}

C2_PathShape ==
    (call.op = "dijkstra" /\ ret # Null) =>
        /\ Len(ret.path) >= 1
        /\ ret.path[1] = call.start
        /\ ret.path[Len(ret.path)] = call.end
        /\ \A i, j \in 1..Len(ret.path) : ret.path[i] = ret.path[j] => i = j
        /\ ret.distance \in PathSums(graph, ret.path)

\* a route over a pair joined by two entries of different weight
C2_Witness ==
    /\ call.op = "dijkstra"
    /\ ret # Null
    /\ Len(ret.path) >= 2
    /\ \E e, f \in Entries(graph) :
          /\ e[1] = ret.path[1] /\ e[2] = ret.path[2]
          /\ f[1] = e[1] /\ f[2] = e[2] /\ f[3] # e[3]

\* C3: path search from a node to itself returns the single-node path with
\* distance 0, whatever entries touch the node.
C3_SameNode ==
    (call.op = "dijkstra" /\ call.start = call.end) =>
        ret = [kind |-> "route", distance |-> 0, path |-> <<call.start>>]

\* the node searched from and to has a zero-weight self-loop and a
\* zero-weight entry to another node
C3_Witness ==
    /\ call.op = "dijkstra"
    /\ call.start = call.end
    /\ ret # Null
    /\ <<call.start, call.start, 0>> \in Entries(graph)
    /\ \E v \in 1..Len(graph.nodes) :
          v # call.start /\ <<call.start, v, 0>> \in Entries(graph)

(***************************************************************************)
(* Reference definitions for the builder and for point insertion           *)
(***************************************************************************)
Min(a, b) == IF a < b THEN a ELSE b
Max(a, b) == IF a > b THEN a ELSE b

Range(seq) == {seq[k] : k \in DOMAIN seq}

\* the whole-metre points of the straight line from A to B along a grid line
\* (a single point when A = B)
PointsOn(A, B) ==
    {<<x, y>> : x \in Min(A[1], B[1])..Max(A[1], B[1]),
                y \in Min(A[2], B[2])..Max(A[2], B[2])}

\* AB and CD are proper segments in different directions
NotParallel(A, B, C, D) ==
    (B[1] - A[1]) * (D[2] - C[2]) - (B[2] - A[2]) * (D[1] - C[1]) # 0

\* the squared distance from p to the nearest point of segment seg
SegmentDist2(seg, p) ==
    MinOf({Dist2(p, q) : q \in PointsOn(seg.coordA, seg.coordB)})

\* the squared distance from p to the nearest point of any segment of g
ClosestDist2(g, p) ==
    MinOf({SegmentDist2(g.segments[k], p) : k \in 1..Len(g.segments)})

\* the first segment of g nearest to p, and the point of it nearest to p
NearestIndex(g, p) ==
    LET d == ClosestDist2(g, p)
    IN MinOf({k \in 1..Len(g.segments) : SegmentDist2(g.segments[k], p) = d})

NearestPoint(g, p) ==
    LET seg == g.segments[NearestIndex(g, p)]
    IN CHOOSE q \in PointsOn(seg.coordA, seg.coordB) :
          \A r \in PointsOn(seg.coordA, seg.coordB) : Dist2(p, q) <= Dist2(p, r)

\* the coordinates listed as nodes of g
NodeCoords(g) == Range(g.nodes)

\* the coordinates of the nodes along a path
PathCoords(g, path) == [k \in 1..Len(path) |-> g.nodes[path[k]]]

\* C4: in a graph built from walkways and extended by point insertions, the
\* searches a -> b and b -> a are both without a route or return the same
\* distance, for every pair of nodes.
C4_Symmetric ==
    pc \in {"built", "startInserted", "endInserted"} =>
        \A a, b \in 1..Len(graph.nodes) :
            a < b =>
                LET ab == dijkstraShortestPath(graph, a, b)
                    ba == dijkstraShortestPath(graph, b, a)
                IN IF ab = Null THEN ba = Null
                   ELSE ba # Null /\ ba.distance = ab.distance

\* both insertions split a segment, and the two new nodes are joined by a
\* route of several entries
C4_Witness ==
    /\ pc = "endInserted"
    /\ Len(graph.nodes) = Len(buildWalkwayGraph(walkwaysFc).nodes) + 2
    /\ LET r == dijkstraShortestPath(graph, Len(graph.nodes) - 1, Len(graph.nodes))
       IN r # Null /\ Len(r.path) >= 3

\* an insertion split a segment of a graph in which some pair of nodes has no
\* route in either direction
C4_WitnessNoRoute ==
    /\ pc = "startInserted"
    /\ Len(graph.nodes) = Len(buildWalkwayGraph(walkwaysFc).nodes) + 1
    /\ \E a, b \in 1..Len(graph.nodes) : dijkstraShortestPath(graph, a, b) = Null

\* C5: every node the builder returns is an end point of at least one
\* segment of the returned edge list.
C5_NoOrphans ==
    call.op = "build" =>
        \A i \in 1..Len(graph.nodes) :
            \E k \in 1..Len(graph.segments) :
                graph.segments[k].a = i \/ graph.segments[k].b = i

\* a built graph with a node that no walkway lists as a vertex
C5_Witness ==
    /\ call.op = "build"
    /\ Len(graph.nodes) >= 5
    /\ \E c \in NodeCoords(graph) :
          \A k \in 1..Len(walkwaysFc) : c \notin Range(walkwaysFc[k])

\* the pairs of segments of two different walkways that cross at X: proper
\* segments in different directions that both contain X
Crossings(ws) ==
    LET Pairs == {q \in UNION {{<<i, a, j, b>> :
                                  a \in 1..(Len(ws[i]) - 1),
                                  b \in 1..(Len(ws[j]) - 1)} :
                               i \in 1..Len(ws), j \in 1..Len(ws)} :
                     /\ q[1] # q[3]
                     /\ NotParallel(ws[q[1]][q[2]], ws[q[1]][q[2] + 1],
                                    ws[q[3]][q[4]], ws[q[3]][q[4] + 1])}
    IN UNION {{[wi |-> q[1], si |-> q[2], wj |-> q[3], sj |-> q[4], X |-> x] :
                  x \in PointsOn(ws[q[1]][q[2]], ws[q[1]][q[2] + 1])
                        \cap PointsOn(ws[q[3]][q[4]], ws[q[3]][q[4] + 1])} :
              q \in Pairs}

\* some segment of g lies on AB and has X as an end point
HasEdgeAlong(g, A, B, X) ==
    \E k \in 1..Len(g.segments) :
        /\ X \in {g.segments[k].coordA, g.segments[k].coordB}
        /\ {g.segments[k].coordA, g.segments[k].coordB} \subseteq PointsOn(A, B)

\* C6: where two segments of different walkways cross at X, the built graph
\* has exactly one node at X, X is a vertex of both refined walkways, and
\* each of the two walkways has an edge ending at that node.
C6_SharedCrossing ==
    call.op = "build" =>
        LET ws == FilterWalkways(walkwaysFc)
        IN \A refined \in {Enrich(ws)} : \A c \in Crossings(ws) :
              /\ Cardinality({i \in 1..Len(graph.nodes) : graph.nodes[i] = c.X}) = 1
              /\ c.X \in Range(refined[c.wi])
              /\ c.X \in Range(refined[c.wj])
              /\ HasEdgeAlong(graph, ws[c.wi][c.si], ws[c.wi][c.si + 1], c.X)
              /\ HasEdgeAlong(graph, ws[c.wj][c.sj], ws[c.wj][c.sj + 1], c.X)

\* a built graph in which the last vertex of a three-point walkway lies
\* inside a segment of the other walkway
C6_Witness ==
    /\ call.op = "build"
    /\ LET ws == FilterWalkways(walkwaysFc)
       IN \E c \in Crossings(ws) :
             /\ Len(ws[c.wi]) = 3
             /\ c.X = ws[c.wi][3]
             /\ c.X \notin Range(ws[c.wj])

\* the five coordinates of the worked example
ExampleCoords == {<<0, 0>>, <<10, 0>>, <<5, -5>>, <<5, 5>>, <<5, 0>>}

\* C7 as stated: the network of the worked example has 6 nodes, among them
\* the four end points and the crossing (5, 0).
C7_SixNodes ==
    (call.op = "build" /\ walkwaysFc = ExampleWalkways) =>
        Len(graph.nodes) = 6 /\ ExampleCoords \subseteq NodeCoords(graph)

\* C7 as amended: the network of the worked example has 5 nodes, exactly the
\* four end points and the crossing (5, 0).
C7_FiveNodes ==
    (call.op = "build" /\ walkwaysFc = ExampleWalkways) =>
        Len(graph.nodes) = 5 /\ NodeCoords(graph) = ExampleCoords

\* the worked example has been built
C7_Witness ==
    /\ call.op = "build"
    /\ walkwaysFc = ExampleWalkways
    /\ Len(graph.segments) = 4

\* the route of the worked example: a search from the node at (0, 0) to the
\* node at (10, 0)
ExampleRouted ==
    /\ walkwaysFc = ExampleWalkways
    /\ pc = "routed"
    /\ graph.nodes[call.start] = <<0, 0>>
    /\ graph.nodes[call.end] = <<10, 0>>

\* C8 as stated: in the worked example the route from (0, 0) to (10, 0) has
\* distance 10 and is the direct edge, not passing through the crossing.
C8_DirectEdge ==
    ExampleRouted =>
        /\ ret # Null
        /\ ret.distance = 10 * WeightScale
        /\ PathCoords(graph, ret.path) = << <<0, 0>>, <<10, 0>> >>

\* C8 as amended: in the worked example the route from (0, 0) to (10, 0) has
\* distance 10 and runs along the horizontal walkway through the crossing
\* node (5, 0), the two halves being the only edges between the end points.
C8_ViaCrossing ==
    ExampleRouted =>
        /\ ret # Null
        /\ ret.distance = 10 * WeightScale
        /\ PathCoords(graph, ret.path) = << <<0, 0>>, <<5, 0>>, <<10, 0>> >>

\* the worked example routed between the two end nodes of the horizontal
\* walkway, neither insertion having split a segment
C8_Witness ==
    /\ ExampleRouted
    /\ ret # Null
    /\ Len(graph.nodes) = 5

\* C9 as stated: an insertion returns null and leaves the graph as it was
\* whenever the graph has no edges or the nearest point of the network is
\* farther from the coordinate than the snap limit, for every limit from 0 up.
C9_TooFarIsNull ==
    [][(pc \in {"built", "startInserted"} /\ call'.op = "insert") =>
          ((Len(graph.segments) = 0
            \/ ClosestDist2(graph, call'.coord)
                 > call'.maxSnapMeters * call'.maxSnapMeters)
           => (ret' = Null /\ graph' = graph))]_vars

\* C10: an insertion that is not rejected and whose closest projection is an
\* end point of the nearest edge returns the index that end point already
\* has and leaves nodes, adjacency and edge list as they were.
C10_EndpointReused ==
    [][(pc \in {"built", "startInserted"} /\ call'.op = "insert" /\ ret' # Null) =>
          LET q == NearestPoint(graph, call'.coord)
              seg == graph.segments[NearestIndex(graph, call'.coord)]
          IN (q \in {seg.coordA, seg.coordB}) =>
                /\ ret'.nodeIndex = (IF q = seg.coordA THEN seg.a ELSE seg.b)
                /\ graph.nodes[ret'.nodeIndex] = q
                /\ graph' = graph]_vars

\* the first insertion snapped, from a distance, onto an end point of a
\* segment that has another segment equally near
C10_Witness ==
    /\ pc = "startInserted"
    /\ ret # Null
    /\ ret.dist2 > 0
    /\ graph = buildWalkwayGraph(walkwaysFc)
    /\ ret.snapped = graph.nodes[ret.nodeIndex]
    /\ Cardinality({k \in 1..Len(graph.segments) :
                      SegmentDist2(graph.segments[k], call.coord) = ret.dist2}) >= 2

\* the entries of node u of g that lead to node v
EntriesTo(g, u, v) == SelectSeq(g.adjacency[u], LAMBDA e : e.to = v)

\* C11: an insertion that is not rejected and whose closest projection lies
\* strictly inside the nearest edge (a,b) appends exactly one node, at the
\* projection, leaves the nodes before it as they were, takes that edge out
\* of the edge list and appends (a,new) and (new,b), returns the new index,
\* and gives the two new edges weights that sum to the weight of (a,b).
C11_InteriorSplit ==
    [][(pc \in {"built", "startInserted"} /\ call'.op = "insert" /\ ret' # Null) =>
          LET k == NearestIndex(graph, call'.coord)
              q == NearestPoint(graph, call'.coord)
              seg == graph.segments[k]
              n == Len(graph.nodes)
              m == Len(graph.segments)
          IN (q \notin {seg.coordA, seg.coordB}) =>
                /\ Len(graph'.nodes) = n + 1
                /\ SubSeq(graph'.nodes, 1, n) = graph.nodes
                /\ graph'.nodes[n + 1] = q
                /\ ret'.nodeIndex = n + 1
                /\ graph'.segments =
                      RemoveAt(graph.segments, k)
                      \o <<[a |-> seg.a, b |-> n + 1, coordA |-> seg.coordA, coordB |-> q],
                           [a |-> n + 1, b |-> seg.b, coordA |-> q, coordB |-> seg.coordB]>>
                /\ Len(EntriesTo(graph', seg.a, n + 1)) = 1
                /\ Len(EntriesTo(graph', n + 1, seg.b)) = 1
                /\ EntriesTo(graph', seg.a, n + 1)[1].weight
                     + EntriesTo(graph', n + 1, seg.b)[1].weight
                     = turfDistance(seg.coordA, seg.coordB)
                /\ \A e \in Range(EntriesTo(graph, seg.a, seg.b)) :
                      e.weight = turfDistance(seg.coordA, seg.coordB)]_vars

\* the second insertion of a session split, from a distance, one of the two
\* edges that the first insertion made
C11_Witness ==
    /\ pc = "endInserted"
    /\ infos[1] # Null /\ ret # Null
    /\ ret.dist2 > 0
    /\ Len(graph.nodes) = Len(buildWalkwayGraph(walkwaysFc).nodes) + 2
    /\ ret.nodeIndex = Len(graph.nodes)
    /\ \E k \in 1..Len(graph.segments) :
          {graph.segments[k].a, graph.segments[k].b}
            = {infos[1].nodeIndex, ret.nodeIndex}

\* C12 as stated: when the second insertion of a session is given the
\* coordinate of the first, it returns the node index the first returned and
\* leaves nodes, adjacency and edge list as the first left them.
C12_Idempotent ==
    [][(pc = "startInserted" /\ call'.op = "insert" /\ call'.coord = call.coord) =>
          (/\ ret' = Null <=> ret = Null
           /\ ret # Null /\ ret' # Null => ret'.nodeIndex = ret.nodeIndex
           /\ graph' = graph)]_vars

(***************************************************************************)
(* The walkway editor: data and geometry helpers                           *)
(*                                                                         *)
(* A feature is a record {id, type, name, curved, control, geometry}; id 0 *)
(* stands for a feature without _id.  The properties segmented and         *)
(* segmentIndex play no part in what is checked here and are left out.     *)
(* A layer object is {feature, latlngs, onMap, nested}; a layer taken off  *)
(* the map keeps its place in walkwayLayer, so a layer is known by its     *)
(* position.  nested tells a line inside a group of its own from a line    *)
(* that is a direct child of walkwayLayer.                                 *)
(* The interior samples of a curve are placed on the chord between the     *)
(* control points they lie between (the true positions are irrational);    *)
(* their number and order, and the first sample of every span, are as the  *)
(* code computes them in exact arithmetic.  On a chord shorter than        *)
(* CURVE_SAMPLES units neighbouring samples fall on the same whole point.  *)
(* Where a computed value is used several times it is bound once through a *)
(* one-element set: CHOOSE r \in {F(x) : x \in {e}} : TRUE is F(e).        *)
(***************************************************************************)
SNAP_METERS == 3
CURVE_SAMPLES == 20
EDIT_SNAP_METERS == 3

\* Math.abs(lng) > 180 || Math.abs(lat) > 90
WorldLng == 180
WorldLat == 90

\* the value of properties.control of a feature that has none
NoControl == << <<>> >>

Feature(id, name, curved, control, geometry) ==
    [id |-> id, type |-> "walkway", name |-> name, curved |-> curved,
     control |-> control, geometry |-> geometry]

\* mapInst.distance(p, q) <= meters
Within(p, q, meters) == Dist2(p, q) <= meters * meters

\* splitIntoSegments(coords)
splitIntoSegments(coords) ==
    [i \in 1..(Len(coords) - 1) |-> <<coords[i], coords[i + 1]>>]

\* sample k of s on the span from p1 to p2
SamplePoint(p1, p2, k, s) ==
    <<p1[1] + ((p2[1] - p1[1]) * k) \div s, p1[2] + ((p2[2] - p1[2]) * k) \div s>>

\* the samples of the spans i, i+1, ... of the padded point list p: a span
\* whose two inner points coincide has t1 = t2 and gives no sample
RECURSIVE SpanSamples(_, _, _)
SpanSamples(p, i, s) ==
    IF i > Len(p) - 3 THEN <<>>
    ELSE (IF p[i + 1] = p[i + 2] THEN <<>>
          ELSE [k \in 1..s |-> SamplePoint(p[i + 1], p[i + 2], k - 1, s)])
         \o SpanSamples(p, i + 1, s)

\* const s = Math.max(2, samples || 8)
SampleCount(samples) == IF samples = 0 THEN 8 ELSE Max(2, samples)

\* catmullRom that starts with the span after the first control point
catmullRomFromSecondSpan(pts, samples) ==
    IF Len(pts) < 2 THEN pts
    ELSE SpanSamples(<<pts[1]>> \o pts \o <<pts[Len(pts)]>>, 2, SampleCount(samples))
         \o <<pts[Len(pts)]>>

\* catmullRom(pts, samples, alpha)
catmullRom(pts, samples) ==
    IF Len(pts) < 2 THEN pts
    ELSE SpanSamples(<<pts[1]>> \o pts \o <<pts[Len(pts)]>>, 1, SampleCount(samples))
         \o <<pts[Len(pts)]>>

\* replaceSegmentWithLocalCurve(coords, segIndex, bend, samples, alpha), from
\* segment i on, with the points pushed so far
RECURSIVE ReplaceFrom(_, _, _, _, _, _)
ReplaceFrom(coords, segIndex, bend, samples, i, out) ==
    IF i > Len(coords) - 1 THEN out
    ELSE LET A == coords[i]
             B == coords[i + 1]
             smooth == catmullRom(<<A, bend, B>>, samples)
         IN IF i = segIndex
            THEN ReplaceFrom(coords, segIndex, bend, samples, i + 1,
                             IF out = <<>> THEN smooth
                             ELSE out \o SubSeq(smooth, 2, Len(smooth)))
            ELSE ReplaceFrom(coords, segIndex, bend, samples, i + 1,
                             (IF out = <<>> THEN <<A>> ELSE out) \o <<B>>)

replaceSegmentWithLocalCurve(coords, segIndex, bend, samples) ==
    ReplaceFrom(coords, segIndex, bend, samples, 1, <<>>)

\* updateControlForSegment(coords, segIndex, bend), from segment i on
RECURSIVE ControlFrom(_, _, _, _, _)
ControlFrom(coords, segIndex, bend, i, out) ==
    IF i > Len(coords) - 1 THEN out
    ELSE LET A == coords[i]
             B == coords[i + 1]
         IN IF i = segIndex
            THEN ControlFrom(coords, segIndex, bend, i + 1,
                             (IF out = <<>> THEN <<A>> ELSE out) \o <<bend, B>>)
            ELSE ControlFrom(coords, segIndex, bend, i + 1,
                             (IF out = <<>> THEN <<A>> ELSE out) \o <<B>>)

updateControlForSegment(coords, segIndex, bend) ==
    ControlFrom(coords, segIndex, bend, 1, <<>>)

(***************************************************************************)
(* The store and the editor's operations on it.  An operation works on the *)
(* editor state E = {store, walkwayFeatures, walkwayLayer, nextId, saved,  *)
(* deleted}: saved lists the records the operation wrote, deleted the      *)
(* identifiers it asked the store to delete.                               *)
(***************************************************************************)
\* a feature whose geometry member is missing
NoGeometry == << <<>> >>

\* upsertWalkway with ON CONFLICT (id) DO NOTHING, as the seed import has it
upsertWalkwayDoNothing(E, f) ==
    LET id == IF f.id # 0 THEN f.id ELSE E.nextId
        withId == [f EXCEPT !.id = id]
    IN [E EXCEPT !.store = IF \E r \in @ : r.id = id THEN @ ELSE @ \cup {withId},
                 !.nextId = IF f.id # 0 THEN @ ELSE @ + 1,
                 !.saved = Append(@, withId)]

\* upsertWalkway(feature) behind CR.saveWalkway: the row with the feature's
\* identifier is replaced, a feature without one gets makeId(); a feature
\* without geometry is handed back as it came (invalid, skip)
upsertWalkway(E, f) ==
    IF f.geometry = NoGeometry THEN [E EXCEPT !.saved = Append(@, f)]
    ELSE LET id == IF f.id # 0 THEN f.id ELSE E.nextId
             withId == [f EXCEPT !.id = id]
         IN [E EXCEPT !.store = {r \in @ : r.id # id} \cup {withId},
                      !.nextId = IF f.id # 0 THEN @ ELSE @ + 1,
                      !.saved = Append(@, withId)]

\* the feature the last save returned
LastSaved(E) == E.saved[Len(E.saved)]

\* deleteWalkwayById(id) behind CR.deleteWalkway
deleteWalkwayById(E, id) ==
    [E EXCEPT !.store = {r \in @ : r.id # id}, !.deleted = Append(@, id)]

\* readAllWalkways(): the rows, here in the order of their identifiers
readAllWalkways(st) ==
    [i \in 1..Cardinality(st) |->
        CHOOSE r \in st : Cardinality({q \in st : q.id < r.id}) = i - 1]

\* the layer CR.createWalkwaysLayer makes of a feature: a line that is a
\* direct child of walkwayLayer
LayerOf(f) == [feature |-> f, latlngs |-> f.geometry, onMap |-> TRUE, nested |-> FALSE]

\* L.geoJSON(saved).addTo(walkwayLayer): the line sits inside a group of its
\* own, and it is the group, which has no feature, that walkwayLayer.eachLayer
\* visits
AttachedLayerOf(f) == [LayerOf(f) EXCEPT !.nested = TRUE]

\* walkwayFeatures.push(saved); addAndAttachWalkway(saved), for the feature
\* the last save returned
PushAndAttach(E) ==
    [E EXCEPT !.walkwayFeatures = Append(@, LastSaved(E)),
              !.walkwayLayer = Append(@, AttachedLayerOf(LastSaved(E)))]

\* for (const f of segs) { saved = await CR.saveWalkway(f); store.push(saved);
\* addAndAttachWalkway(saved); }: segment i gets the i-th fresh identifier
SaveSegments(E, segs, name) ==
    LET recs == [i \in 1..Len(segs) |->
                    Feature(E.nextId + i - 1, name, FALSE, segs[i], segs[i])]
    IN [E EXCEPT !.store = {r \in @ : \A i \in 1..Len(recs) : r.id # recs[i].id}
                              \cup Range(recs),
                 !.nextId = @ + Len(recs),
                 !.saved = @ \o recs,
                 !.walkwayFeatures = @ \o recs,
                 !.walkwayLayer = @ \o [i \in 1..Len(recs) |-> AttachedLayerOf(recs[i])]]

\* the coordinates sanitizeWalkwayFeature keeps: finite ones inside the world
InWorld(c) == Abs(c[1]) <= WorldLng /\ Abs(c[2]) <= WorldLat

Cleaned(coords) == SelectSeq(coords, InWorld)

\* sanitizeWalkwayFeature(f), for a feature it does not reject
sanitizeWalkwayFeature(f) ==
    [f EXCEPT !.geometry = Cleaned(f.geometry),
              !.control = IF f.control = NoControl THEN Cleaned(f.geometry)
                          ELSE f.control]

\* sanitizeFeatureCollection(fc): features with fewer than 2 clean points are
\* left out
sanitizeFeatureCollection(feats) ==
    LET kept == SelectSeq(feats, LAMBDA f : Len(Cleaned(f.geometry)) >= 2)
    IN [i \in 1..Len(kept) |-> sanitizeWalkwayFeature(kept[i])]

\* buildNodeIndex(walkways, features): both ends of every walkway lo..hi (the
\* entrances of the feature store are not part of the model)
RECURSIVE NodeIndexOf(_, _, _)
NodeIndexOf(walkways, lo, hi) ==
    IF lo > hi THEN <<>>
    ELSE IF lo = hi
    THEN LET g == walkways[lo].geometry
         IN IF Len(g) > 0 THEN <<g[1], g[Len(g)]>> ELSE <<>>
    ELSE NodeIndexOf(walkways, lo, (lo + hi) \div 2)
         \o NodeIndexOf(walkways, (lo + hi) \div 2 + 1, hi)

buildNodeIndex(walkways) == NodeIndexOf(walkways, 1, Len(walkways))

\* normalizeWalkways(mapInst, wl, store) on the layers todo, the originals of
\* more than two points: each is saved as its segments and, when it has an
\* identifier, deleted from the store and taken off the map
RECURSIVE NormalizeFrom(_, _)
NormalizeFrom(E, todo) ==
    IF todo = <<>> THEN E
    ELSE LET k == todo[1]
             f == E.walkwayLayer[k].feature
             E1 == SaveSegments(E, splitIntoSegments(f.geometry), f.name)
             E2 == IF f.id # 0
                   THEN [deleteWalkwayById(E1, f.id)
                            EXCEPT !.walkwayLayer[k].onMap = FALSE]
                   ELSE E1
         IN NormalizeFrom(E2, Tail(todo))

normalizeWalkways(E) ==
    NormalizeFrom(E, SelectSeq([k \in 1..Len(E.walkwayLayer) |-> k],
                               LAMBDA k : Len(E.walkwayLayer[k].feature.geometry) > 2))

\* findClosestSnapOnWalkways(mapInst, coord, walkways, thresholdMeters): the
\* first of the nearest projections within the threshold, features and their
\* segments taken in order; feature is the position of the feature in
\* walkways, segmentIndex 0 is null
SnapCandidates(coord, walkways) ==
    UNION {{LET g == walkways[fi].geometry
                p == ProjectOnto([coordA |-> g[i], coordB |-> g[i + 1]], coord)
            IN [feature |-> fi, segmentIndex |-> i, snappedCoord |-> p,
                dist2 |-> Dist2(coord, p)] :
              i \in 1..(Len(walkways[fi].geometry) - 1)} : fi \in 1..Len(walkways)}

findClosestSnapOnWalkways(coord, walkways, thresholdMeters) ==
    LET near == {b \in SnapCandidates(coord, walkways) :
                    b.dist2 <= thresholdMeters * thresholdMeters}
    IN IF near = {}
       THEN [feature |-> 0, segmentIndex |-> 0, snappedCoord |-> coord, dist2 |-> 0]
       ELSE CHOOSE b \in near : \A q \in near :
               \/ b.dist2 < q.dist2
               \/ /\ b.dist2 = q.dist2
                  /\ \/ b.feature < q.feature
                     \/ b.feature = q.feature /\ b.segmentIndex <= q.segmentIndex

\* snapCoord / snapToNodes: the first nearest node within meters, else c
snapToNodes(c, ns, meters) ==
    LET near == {i \in 1..Len(ns) : Within(c, ns[i], meters)}
    IN IF near = {} THEN c
       ELSE ns[CHOOSE i \in near : \A j \in near :
                  \/ Dist2(c, ns[i]) < Dist2(c, ns[j])
                  \/ Dist2(c, ns[i]) = Dist2(c, ns[j]) /\ i <= j]

\* step 3 of magnetizeWalkwayPolyline and dedupePolyline: drop a vertex that
\* is not farther than the threshold (0.1 m, 0.05 m) from the one kept before
\* it.  On whole metres that is: equal to it, and then the vertex kept last
\* is equal to the vertex just before
Dedupe(coords) ==
    LET keep == SelectSeq([i \in 1..Len(coords) |-> i],
                          LAMBDA i : i = 1 \/ Dist2(coords[i - 1], coords[i]) > 0)
    IN [n \in 1..Len(keep) |-> coords[keep[n]]]

dedupePolyline(coords) ==
    CHOOSE r \in {IF Len(out) >= 2 THEN out ELSE coords : out \in {Dedupe(coords)}} : TRUE

\* magnetizeWalkwayPolyline(mapInst, coords, walkways, nodes, snapMeters)
magnetizeWalkwayPolyline(coords, walkways, ns, snapMeters) ==
    IF Len(coords) < 2 THEN coords
    ELSE LET Snap(c) ==
                CHOOSE r \in {IF b.segmentIndex # 0 THEN b.snappedCoord
                              ELSE snapToNodes(c, ns, snapMeters) :
                              b \in {findClosestSnapOnWalkways(c, walkways, snapMeters)}} :
                    TRUE
             Close(snapped) ==
                IF Len(snapped) > 2
                   /\ Within(snapped[1], snapped[Len(snapped)], snapMeters)
                THEN [snapped EXCEPT ![Len(snapped)] = snapped[1]]
                ELSE snapped
         IN CHOOSE r \in {dedupePolyline(closed) :
                             closed \in {Close(snapped) :
                                 snapped \in {[i \in 1..Len(coords) |-> Snap(coords[i])]}}} :
                TRUE

\* handleCreated(layer, "walkway") for the drawn line coords
handleCreated(E, ns, coords, name) ==
    IF Len(coords) < 2 THEN E
    ELSE CHOOSE r \in
            {IF Len(m) < 2 THEN E
             ELSE IF Len(m) = 2
             THEN PushAndAttach(upsertWalkway(E, Feature(0, name, FALSE, m, m)))
             ELSE SaveSegments(E, splitIntoSegments(m), name) :
             m \in {magnetizeWalkwayPolyline(coords, E.walkwayFeatures, ns, SNAP_METERS)}} :
            TRUE

\* layer.feature = saved; layer.setLatLngs(geometry), for layer k and the
\* feature the last save returned
AdoptSaved(E, k, geometry) ==
    [E EXCEPT !.walkwayLayer[k].feature = LastSaved(E),
              !.walkwayLayer[k].latlngs = geometry]

\* persistBend(layer, newGeom, newControl, props) for layer k
persistBend(E, k, newGeom, newControl) ==
    LET base == E.walkwayLayer[k].feature
        updated == [base EXCEPT !.curved = TRUE, !.control = newControl,
                                !.geometry = newGeom]
    IN AdoptSaved(upsertWalkway(E, updated), k, newGeom)

\* the coordinates of the walkways lo..hi, in order
RECURSIVE AllCoords(_, _, _)
AllCoords(walkways, lo, hi) ==
    IF lo > hi THEN <<>>
    ELSE IF lo = hi THEN walkways[lo].geometry
    ELSE AllCoords(walkways, lo, (lo + hi) \div 2)
         \o AllCoords(walkways, (lo + hi) \div 2 + 1, hi)

\* collectWalkwayNodes(walkwayFeatures): every coordinate once, in order
collectWalkwayNodes(walkways) ==
    LET all == AllCoords(walkways, 1, Len(walkways))
        keep == SelectSeq([i \in 1..Len(all) |-> i],
                          LAMBDA i : \A j \in 1..(i - 1) : all[j] # all[i])
    IN [n \in 1..Len(keep) |-> all[keep[n]]]

\* snapEditedPolyline(mapInst, coords, nodes, tolMeters)
snapEditedPolyline(coords, ns, tolMeters) ==
    dedupePolyline([i \in 1..Len(coords) |-> snapToNodes(coords[i], ns, tolMeters)])

\* the position of the first feature of the list with identifier id (0: none)
FindIndex(walkways, id) ==
    IF \E i \in 1..Len(walkways) : walkways[i].id = id
    THEN CHOOSE i \in 1..Len(walkways) :
            walkways[i].id = id /\ \A j \in 1..(i - 1) : walkways[j].id # id
    ELSE 0

\* persistEditedWalkway(mapInst, layer, walkwayFeatures) for layer k, whose
\* vertices the draw editor has left at latlngs
persistEditedWalkway(E, k, latlngs) ==
    IF Len(latlngs) = 0 THEN E
    ELSE LET props == E.walkwayLayer[k].feature
             snappedCoords == snapEditedPolyline(latlngs,
                                  collectWalkwayNodes(E.walkwayFeatures),
                                  EDIT_SNAP_METERS)
             E1 == AdoptSaved(upsertWalkway(E, [props EXCEPT !.geometry = snappedCoords]),
                              k, snappedCoords)
             idx == IF props.id = 0 THEN 0 ELSE FindIndex(E.walkwayFeatures, props.id)
         IN IF idx > 0
            THEN [E1 EXCEPT !.walkwayFeatures[idx] = LastSaved(E1)]
            ELSE [E1 EXCEPT !.walkwayFeatures = Append(@, LastSaved(E1))]

\* the layer that walkwayLayer.eachLayer leaves in layerToRemove: the last
\* child of walkwayLayer with a feature of identifier id (0: none)
LayerToRemove(layers, id) ==
    LET hits == {k \in 1..Len(layers) : /\ layers[k].onMap /\ ~layers[k].nested
                                        /\ layers[k].feature.id = id}
    IN IF hits = {} THEN 0 ELSE CHOOSE k \in hits : \A j \in hits : j <= k

\* as same, but never true
sameNever(c1, c2) == FALSE

\* same(c1, c2) of splitWalkwayAtPoint: both differences below 1e-10
same(c1, c2) == Abs(c1[1] - c2[1]) = 0 /\ Abs(c1[2] - c2[2]) = 0

\* splitWalkwayAtPoint(mapInst, walkwayLayer, walkwayFeatures, snapInfo, ...)
splitWalkwayAtPoint(E, snapInfo) ==
    LET orig == E.walkwayFeatures[snapInfo.feature]
        coords == orig.geometry
        j == snapInfo.segmentIndex
        P == snapInfo.snappedCoord
        f1 == [orig EXCEPT !.id = 0, !.geometry = SubSeq(coords, 1, j) \o <<P>>]
        f2 == [orig EXCEPT !.id = 0,
                           !.geometry = <<P>> \o SubSeq(coords, j + 1, Len(coords))]
        idx == FindIndex(E.walkwayFeatures, orig.id)
        lay == LayerToRemove(E.walkwayLayer, orig.id)
        E1 == [E EXCEPT !.walkwayFeatures = IF idx > 0 THEN RemoveAt(@, idx) ELSE @,
                        !.walkwayLayer = IF lay > 0
                                         THEN [@ EXCEPT ![lay].onMap = FALSE] ELSE @]
        E2 == upsertWalkway(upsertWalkway(E1, f1), f2)
        saved1 == E2.saved[Len(E2.saved) - 1]
        saved2 == E2.saved[Len(E2.saved)]
    IN IF same(P, coords[j]) \/ same(P, coords[j + 1]) THEN E
       ELSE [E2 EXCEPT !.walkwayFeatures = @ \o <<saved1, saved2>>,
                       !.walkwayLayer = @ \o <<AttachedLayerOf(saved1),
                                               AttachedLayerOf(saved2)>>]

\* the Rename button of the panel of layer k (admin.js)
renameWalkway(E, k, newName) ==
    LET f == E.walkwayLayer[k].feature
        E1 == upsertWalkway(E, [f EXCEPT !.name = newName])
    IN [E1 EXCEPT !.walkwayLayer[k].feature = LastSaved(E1)]

\* as the Uncurve branch, but the sampled geometry is kept
uncurveKeepsGeometry(E, k) ==
    LET p == E.walkwayLayer[k].feature
    IN AdoptSaved(upsertWalkway(E, [p EXCEPT !.curved = FALSE]), k, p.geometry)

\* the Uncurve branch of the Curve/Uncurve button of the panel of layer k
uncurveWalkway(E, k) ==
    LET p == E.walkwayLayer[k].feature
        control == p.control
    IN AdoptSaved(upsertWalkway(E, [p EXCEPT !.curved = FALSE, !.control = control,
                                             !.geometry = control]),
                  k, control)

\* the Curve branch of the same button
curveWalkway(E, k) ==
    LET p == E.walkwayLayer[k].feature
        control == p.control
        smooth == catmullRom(control, CURVE_SAMPLES)
    IN AdoptSaved(upsertWalkway(E, [p EXCEPT !.curved = TRUE, !.control = control,
                                             !.geometry = smooth]),
                  k, smooth)

(***************************************************************************)
(* The editing session: the editor is opened on a store, and walkways are  *)
(* drawn, bent, reshaped, split, renamed and curved or uncurved.  A bend   *)
(* here is the whole gesture on a freshly selected walkway (select it,     *)
(* press a handle, move, release); SpecHandles below takes the gesture     *)
(* apart.  A panel button acts on the walkway whose panel is shown, which  *)
(* is the one selected last, with the properties it has at that time.      *)
(***************************************************************************)
MaxEdits == 2    \* operations of one session after the first opening

InitialStores ==
    { {},
      {Feature(1, "a", FALSE, << <<0, 0>>, <<20, 0>> >>, << <<0, 0>>, <<20, 0>> >>)},
      {Feature(1, "a", FALSE, NoControl, << <<0, 0>>, <<20, 0>>, <<20, 20>> >>)},
      {Feature(1, "a", FALSE, << <<0, 0>>, <<20, 0>> >>, << <<0, 0>>, <<20, 0>> >>),
       Feature(2, "b", FALSE, NoControl, << <<20, 0>>, <<20, 91>>, <<20, 20>> >>),
       Feature(3, "b", FALSE, NoControl, << <<0, 20>> >>)} }

DrawInputs ==
    { << <<2, 2>>, <<20, 20>> >>,
      << <<10, 2>>, <<10, 0>> >>,
      << <<0, 20>>, <<20, 20>>, <<20, 2>> >> }

BendPoints == { <<20, 20>>, <<0, 0>> }
EditTargets == { <<2, 0>>, <<10, 10>> }
SplitClicks == { <<10, 2>>, <<0, 2>>, <<10, 10>> }
NewNames == { "b" }

MaxId(st) == IF st = {} THEN 0 ELSE CHOOSE m \in {r.id : r \in st} : \A r \in st : r.id <= m

InitEditor ==
    /\ walkwaysFc = <<>>
    /\ graph = EmptyGraph
    /\ pc = "closed"
    /\ call = [op |-> "none"]
    /\ ret = Null
    /\ infos = <<>>
    /\ snapLimit = MAX_SNAP_METERS
    /\ store \in InitialStores
    /\ walkwayFeatures = <<>>
    /\ walkwayLayer = <<>>
    /\ segmentHandles = NoHandles
    /\ selected = 0
    /\ multiSelection = {}
    /\ nextId = MaxId(store) + 1
    /\ snapNodes = <<>>
    /\ edits = 0
    /\ ServerUnused

\* the editor state an operation starts from
Ed ==
    [store |-> store, walkwayFeatures |-> walkwayFeatures, walkwayLayer |-> walkwayLayer,
     nextId |-> nextId, saved |-> <<>>, deleted |-> <<>>]

\* the editor state E an operation ends in, and the record c of the operation
Commit(E, c) ==
    /\ store' = E.store
    /\ walkwayFeatures' = E.walkwayFeatures
    /\ walkwayLayer' = E.walkwayLayer
    /\ nextId' = E.nextId
    /\ call' = [op |-> c.op, layer |-> c.layer, arg |-> c.arg,
                saved |-> E.saved, deleted |-> E.deleted]

\* the layers a click or an edit can reach
OnMap == {k \in 1..Len(walkwayLayer) : walkwayLayer[k].onMap}

\* bootAdmin(): fetch, sanitise, make the layers, index the nodes, normalise
OpenEditor ==
    /\ pc = "closed"
    /\ LET feats == sanitizeFeatureCollection(readAllWalkways(store))
           E0 == [Ed EXCEPT !.walkwayFeatures = feats,
                            !.walkwayLayer = [i \in 1..Len(feats) |-> LayerOf(feats[i])]]
       IN /\ Commit(normalizeWalkways(E0), [op |-> "open", layer |-> 0, arg |-> <<>>])
          /\ snapNodes' = buildNodeIndex(feats)
    /\ pc' = "editing"
    /\ UNCHANGED <<serverVars, walkwaysFc, graph, ret, infos, snapLimit, segmentHandles, selected,
                   multiSelection, edits>>

\* the page is left; the store stays
CloseEditor ==
    /\ pc = "editing"
    /\ edits < MaxEdits
    /\ pc' = "closed"
    /\ walkwayFeatures' = <<>>
    /\ walkwayLayer' = <<>>
    /\ snapNodes' = <<>>
    /\ call' = [op |-> "close"]
    /\ edits' = edits + 1
    /\ UNCHANGED <<serverVars, walkwaysFc, graph, ret, infos, snapLimit, store, segmentHandles,
                   selected, multiSelection, nextId>>

\* what every operation of the open editor leaves alone
EditStep ==
    /\ pc = "editing"
    /\ edits < MaxEdits
    /\ edits' = edits + 1
    /\ UNCHANGED <<serverVars, walkwaysFc, graph, pc, ret, infos, snapLimit, segmentHandles,
                   selected, multiSelection>>

\* map.once(CREATED): handleCreated(evt.layer, "walkway"), then the node index
\* is rebuilt
DrawWalkway(coords) ==
    /\ EditStep
    /\ \E E \in {handleCreated(Ed, snapNodes, coords, "a")} :
          /\ Commit(E, [op |-> "draw", layer |-> 0, arg |-> coords])
          /\ snapNodes' = buildNodeIndex(E.walkwayFeatures)

\* layer k is selected, the handle of segment i of its control is dragged to
\* bend and released: onCommit(newGeom, newControl, ...) is persistBend
BendSegment(k, i, bend) ==
    /\ EditStep
    /\ LET control == IF walkwayLayer[k].feature.control = NoControl
                      THEN walkwayLayer[k].feature.geometry
                      ELSE walkwayLayer[k].feature.control
       IN /\ i \in 1..(Len(control) - 1)
          /\ Commit(persistBend(Ed, k,
                        replaceSegmentWithLocalCurve(control, i, bend, CURVE_SAMPLES),
                        updateControlForSegment(control, i, bend)),
                    [op |-> "bend", layer |-> k, arg |-> <<i, bend>>])
    /\ UNCHANGED snapNodes

\* map.on(EDITED): vertex v of layer k was moved to target in the draw editor
EditShape(k, v, target) ==
    /\ EditStep
    /\ v \in {1, Len(walkwayLayer[k].latlngs)}
    /\ Commit(persistEditedWalkway(Ed, k, [walkwayLayer[k].latlngs EXCEPT ![v] = target]),
              [op |-> "shape", layer |-> k, arg |-> <<v, target>>])
    /\ UNCHANGED snapNodes

\* splitWalkwayAtPoint on the snap findClosestSnapOnWalkways finds for a click
SplitAtPoint(click) ==
    /\ EditStep
    /\ LET snapInfo == findClosestSnapOnWalkways(click, walkwayFeatures, SNAP_METERS)
       IN /\ snapInfo.segmentIndex # 0
          /\ Commit(splitWalkwayAtPoint(Ed, snapInfo),
                    [op |-> "split", layer |-> 0, arg |-> snapInfo])
    /\ UNCHANGED snapNodes

\* the Rename button
RenameWalkway(k, newName) ==
    /\ EditStep
    /\ Commit(renameWalkway(Ed, k, newName),
              [op |-> "rename", layer |-> k, arg |-> newName])
    /\ UNCHANGED snapNodes

\* the Curve/Uncurve button
ToggleCurve(k) ==
    /\ EditStep
    /\ IF walkwayLayer[k].feature.curved
       THEN Commit(uncurveWalkway(Ed, k), [op |-> "uncurve", layer |-> k, arg |-> <<>>])
       ELSE Commit(curveWalkway(Ed, k), [op |-> "curve", layer |-> k, arg |-> <<>>])
    /\ UNCHANGED snapNodes

NextEditor ==
    \/ OpenEditor
    \/ CloseEditor
    \/ \E coords \in DrawInputs : DrawWalkway(coords)
    \/ \E k \in OnMap, i \in 1..3, bend \in BendPoints : BendSegment(k, i, bend)
    \/ \E k \in OnMap, v \in 1..(CURVE_SAMPLES + 2), target \in EditTargets :
          EditShape(k, v, target)
    \/ \E click \in SplitClicks : SplitAtPoint(click)
    \/ \E k \in OnMap, newName \in NewNames : RenameWalkway(k, newName)
    \/ \E k \in OnMap : ToggleCurve(k)

SpecEditor == InitEditor /\ [][NextEditor]_vars

\* every record the editor has written in its last operation
Written == IF "saved" \in DOMAIN call THEN Range(call.saved) ELSE {}

\* C13: every record an editor operation writes to the store has at least 2
\* points in geometry and at least 2 points in control, and when its curved
\* flag is false its geometry equals its control.
C13_WrittenWellFormed ==
    \A r \in Written :
        /\ Len(r.geometry) >= 2
        /\ r.control # NoControl
        /\ Len(r.control) >= 2
        /\ ~r.curved => r.geometry = r.control

\* the split step of the editing session and what it was given
IsSplitStep == pc = "editing" /\ edits' = edits + 1 /\ call'.op = "split"
SplitOrig == walkwayFeatures[call'.arg.feature]
SplitA == SplitOrig.geometry[call'.arg.segmentIndex]
SplitB == SplitOrig.geometry[call'.arg.segmentIndex + 1]
SplitP == call'.arg.snappedCoord

\* the features the map shows
Shown(layers) == {layers[k].feature : k \in {j \in 1..Len(layers) : layers[j].onMap}}

\* holding has no record of the original and has both halves under fresh,
\* distinct identifiers
HoldsHalves(holding, orig, j, P) ==
    /\ \A r \in holding : r.id # orig.id
    /\ \E f1, f2 \in holding :
          /\ f1.geometry = SubSeq(orig.geometry, 1, j) \o <<P>>
          /\ f2.geometry = <<P>> \o SubSeq(orig.geometry, j + 1, Len(orig.geometry))
          /\ f1.name = orig.name /\ f2.name = orig.name
          /\ f1.type = orig.type /\ f2.type = orig.type
          /\ f1.id # f2.id /\ f1.id # orig.id /\ f2.id # orig.id

\* C14: after splitWalkwayAtPoint at a point P strictly between the vertices
\* A and B of a walkway, the original is gone from the store, from the
\* in-memory list and from the map layer, and each of the three holds the
\* two halves [...before, P] and [P, ...after] with the original's name and
\* type and identifiers that differ from each other and from the original's.
C14_SplitReplaces ==
    [][(IsSplitStep /\ SplitP # SplitA /\ SplitP # SplitB) =>
          /\ HoldsHalves(store', SplitOrig, call'.arg.segmentIndex, SplitP)
          /\ HoldsHalves(Range(walkwayFeatures'), SplitOrig, call'.arg.segmentIndex, SplitP)
          /\ HoldsHalves(Shown(walkwayLayer'), SplitOrig, call'.arg.segmentIndex, SplitP)]_vars

\* C15: when the snapped point P coincides with end point A or B of the
\* targeted segment, splitWalkwayAtPoint writes nothing to the store, deletes
\* nothing from it and leaves the in-memory list and the map layer unchanged.
C15_EndpointNoOp ==
    [][(IsSplitStep /\ (SplitP = SplitA \/ SplitP = SplitB)) =>
          /\ call'.saved = <<>>
          /\ call'.deleted = <<>>
          /\ store' = store
          /\ walkwayFeatures' = walkwayFeatures
          /\ walkwayLayer' = walkwayLayer]_vars

\* a split at an end point has been asked for
C15_Witness ==
    /\ pc = "editing"
    /\ call.op = "split"
    /\ call.saved = <<>>
    /\ LET g == walkwayFeatures[call.arg.feature].geometry
       IN call.arg.snappedCoord \in {g[call.arg.segmentIndex], g[call.arg.segmentIndex + 1]}

\* C17: Uncurve on a curved walkway saves, under the same identifier, a
\* record with curved = false whose geometry is the walkway's control array;
\* the control array is unchanged and so is the number of records in the
\* store.
C17_Uncurve ==
    [][(pc = "editing" /\ edits' = edits + 1 /\ call'.op = "uncurve") =>
          LET p == walkwayLayer[call'.layer].feature
          IN /\ Len(call'.saved) = 1
             /\ call'.saved[1].id = p.id
             /\ call'.saved[1].curved = FALSE
             /\ call'.saved[1].geometry = p.control
             /\ call'.saved[1].control = p.control
             /\ call'.saved[1] \in store'
             /\ Cardinality(store') = Cardinality(store)]_vars

\* a walkway that was bent has been uncurved
C17_Witness ==
    /\ pc = "editing"
    /\ call.op = "uncurve"
    /\ \E r \in store : /\ r = call.saved[1]
                        /\ ~r.curved
                        /\ Len(r.control) = 3
                        /\ r.geometry = r.control

(***************************************************************************)
(* The bend handles, event by event.  Selecting a walkway clears the       *)
(* handles on the map and shows those of the selected layer; a handle is   *)
(* pressed, the pointer moves over the map, the button is released over    *)
(* the map.  A release outside the map is no event at all: the handle then *)
(* stays in its drag.  segmentHandles holds the layer the handles belong   *)
(* to, the control points captured when they were shown, and per handle    *)
(* its position and its `dragging` flag.                                   *)
(***************************************************************************)
\* showSegmentHandles(mapInst, layer, samples, alpha, onCommit) for layer k
showSegmentHandles(layers, k) ==
    LET f == layers[k].feature
        control == IF f.control = NoControl THEN f.geometry ELSE f.control
        segments == splitIntoSegments(control)
    IN IF Len(control) < 2
       THEN [NoHandles EXCEPT !.layer = k]
       ELSE [layer |-> k,
             control |-> control,
             handle |-> [i \in 1..Len(segments) |->
                            <<(segments[i][1][1] + segments[i][2][1]) \div 2,
                              (segments[i][1][2] + segments[i][2][2]) \div 2>>],
             dragging |-> [i \in 1..Len(segments) |-> FALSE]]

\* the handles in a drag, in the order in which their listeners were added
Dragging(h) == SelectSeq([i \in 1..Len(h.dragging) |-> i], LAMBDA i : h.dragging[i])

\* the click handler attachWalkway gives layer k: the layer is selected, the
\* old handles are cleared (clearSegmentHandles) and its own are shown
SelectWalkway(k) ==
    /\ pc = "editing"
    /\ selected' = k
    /\ segmentHandles' = showSegmentHandles(walkwayLayer, k)
    /\ call' = [op |-> "select", layer |-> k, arg |-> <<>>, saved |-> <<>>,
                deleted |-> <<>>]
    /\ UNCHANGED <<serverVars, walkwaysFc, graph, pc, ret, infos, snapLimit, store, walkwayFeatures,
                   walkwayLayer, multiSelection, nextId, snapNodes, edits>>

\* handle.on("mousedown") of handle i
HandleMouseDown(i) ==
    /\ pc = "editing"
    /\ i \in 1..Len(segmentHandles.handle)
    /\ edits + Len(Dragging(segmentHandles)) < MaxEdits
    /\ segmentHandles' = [segmentHandles EXCEPT !.dragging[i] = TRUE]
    /\ call' = [op |-> "mousedown", layer |-> segmentHandles.layer, arg |-> i,
                saved |-> <<>>, deleted |-> <<>>]
    /\ UNCHANGED <<serverVars, walkwaysFc, graph, pc, ret, infos, snapLimit, store, walkwayFeatures,
                   walkwayLayer, selected, multiSelection, nextId, snapNodes, edits>>

\* as movePreview, but the preview is saved as well
movePreviewSaves(E, h, i, latlng) ==
    LET preview == replaceSegmentWithLocalCurve(h.control, i, latlng, CURVE_SAMPLES)
    IN persistBend(E, h.layer, preview, updateControlForSegment(h.control, i, latlng))

\* moveFn of handle i, after handle.setLatLng: layer.setLatLngs(preview)
movePreview(E, h, i, latlng) ==
    LET preview == replaceSegmentWithLocalCurve(h.control, i, latlng, CURVE_SAMPLES)
    IN [E EXCEPT !.walkwayLayer[h.layer].latlngs = preview]

\* the previews of the handles d[n], d[n+1], ...
RECURSIVE MovePreviews(_, _, _, _, _)
MovePreviews(E, h, d, n, latlng) ==
    IF n > Len(d) THEN E
    ELSE MovePreviews(movePreview(E, h, d[n], latlng), h, d, n + 1, latlng)

\* the mousemove listeners of the map, one moveFn per handle: every handle in
\* a drag follows the pointer and shows its preview
MapMouseMove(latlng) ==
    /\ pc = "editing"
    /\ Dragging(segmentHandles) # <<>>
    /\ segmentHandles' =
          [segmentHandles EXCEPT !.handle =
              [i \in 1..Len(@) |-> IF segmentHandles.dragging[i] THEN latlng ELSE @[i]]]
    /\ Commit(MovePreviews(Ed, segmentHandles, Dragging(segmentHandles), 1, latlng),
              [op |-> "mousemove", layer |-> segmentHandles.layer, arg |-> latlng])
    /\ UNCHANGED <<serverVars, walkwaysFc, graph, pc, ret, infos, snapLimit, selected, multiSelection,
                   snapNodes, edits>>

\* the commits of the handles d[n], d[n+1], ...: onCommit(newGeom, newControl)
RECURSIVE CommitBends(_, _, _, _)
CommitBends(E, h, d, n) ==
    IF n > Len(d) THEN E
    ELSE CommitBends(persistBend(E, h.layer,
                         replaceSegmentWithLocalCurve(h.control, d[n], h.handle[d[n]],
                                                      CURVE_SAMPLES),
                         updateControlForSegment(h.control, d[n], h.handle[d[n]])),
                     h, d, n + 1)

\* the mouseup listeners of the map, one upFn per handle: every handle in a
\* drag ends it and commits its bend
MapMouseUp ==
    /\ pc = "editing"
    /\ Dragging(segmentHandles) # <<>>
    /\ Commit(CommitBends(Ed, segmentHandles, Dragging(segmentHandles), 1),
              [op |-> "mouseup", layer |-> segmentHandles.layer,
               arg |-> Dragging(segmentHandles)])
    /\ segmentHandles' =
          [segmentHandles EXCEPT !.dragging = [i \in 1..Len(@) |-> FALSE]]
    /\ edits' = edits + Len(Dragging(segmentHandles))
    /\ UNCHANGED <<serverVars, walkwaysFc, graph, pc, ret, infos, snapLimit, selected, multiSelection,
                   snapNodes>>

NextHandles ==
    \/ OpenEditor
    \/ \E k \in OnMap : SelectWalkway(k)
    \/ \E i \in 1..(MaxEdits + 2) : HandleMouseDown(i)
    \/ \E latlng \in BendPoints : MapMouseMove(latlng)
    \/ MapMouseUp

SpecHandles == InitEditor /\ [][NextHandles]_vars

\* the release that commits the bend of one handle
IsBendCommit ==
    pc = "editing" /\ call'.op = "mouseup" /\ Len(Dragging(segmentHandles)) = 1

\* C16: committing a bend on segment i of a walkway whose control polygon
\* has n points saves a record with the same identifier, curved = true and a
\* control array of n+1 points: the old control with the bend point inserted
\* between control[i] and control[i+1]; the number of records in the store
\* is unchanged.
C16_BendCommit ==
    [][IsBendCommit =>
          LET i == Dragging(segmentHandles)[1]
              bend == segmentHandles.handle[i]
              p == walkwayLayer[segmentHandles.layer].feature
              n == Len(p.control)
          IN /\ Len(call'.saved) = 1
             /\ call'.saved[1] \in store'
             /\ call'.saved[1].id = p.id
             /\ call'.saved[1].curved = TRUE
             /\ Len(call'.saved[1].control) = n + 1
             /\ call'.saved[1].control =
                   SubSeq(p.control, 1, i) \o <<bend>> \o SubSeq(p.control, i + 1, n)
             /\ Cardinality(store') = Cardinality(store)]_vars

\* the events of the handles
HandleEvents == {"select", "mousedown", "mousemove", "mouseup"}

ValidRecord(w) == Len(w) >= 2 /\ \A i \in 1..Len(w) : InWorld(w[i])

\* C20: a record with an out-of-world coordinate or fewer than 2 points is
\* dropped before the network is built and every other record is kept in its
\* order: the network is the one built from the valid records alone.
C20_InvalidDropped ==
    pc \in {"built", "done"} =>
        graph = buildWalkwayGraph(SelectSeq(walkwaysFc, ValidRecord))

(***************************************************************************)
(* Bulk selection and deletion.  A rectangle is {west, south, east, north} *)
(* and serves as the box of the box selection and as the polygon of the    *)
(* polygon delete.  The walkways lie on the line y = 0, which runs through *)
(* the inside of every rectangle, and no vertex lies on a rectangle's      *)
(* outline.  turf is not part of the sources; its functions are modelled   *)
(* on such lines as documented: lineSplit cuts the line where it crosses   *)
(* the outline, booleanPointInPolygon counts the outline as inside,        *)
(* booleanWithin is containment of the whole line.  What lineSplit gives   *)
(* for a line the outline does not cut is left open: no piece, or the line *)
(* itself.                                                                 *)
(***************************************************************************)
\* turf.booleanPointInPolygon(turf.point(c), rectPoly)
booleanPointInPolygon(c, rect) ==
    rect.west <= c[1] /\ c[1] <= rect.east /\ rect.south <= c[2] /\ c[2] <= rect.north

\* where the segment from A to B crosses the outline, in the order of travel
CutsOn(A, B, rect) ==
    LET lo == IF A[1] < B[1] THEN A[1] ELSE B[1]
        hi == IF A[1] < B[1] THEN B[1] ELSE A[1]
        xs == SelectSeq(IF A[1] < B[1] THEN <<rect.west, rect.east>>
                        ELSE <<rect.east, rect.west>>,
                        LAMBDA x : lo < x /\ x < hi)
    IN [n \in 1..Len(xs) |-> <<xs[n], A[2]>>]

\* the pieces of the line from segment i on; cur is the piece being built
RECURSIVE SplitFrom(_, _, _, _)
SplitFrom(coords, i, cur, rect) ==
    IF i > Len(coords) - 1 THEN <<cur>>
    ELSE LET cs == CutsOn(coords[i], coords[i + 1], rect)
         IN IF Len(cs) = 0
            THEN SplitFrom(coords, i + 1, Append(cur, coords[i + 1]), rect)
            ELSE IF Len(cs) = 1
            THEN <<Append(cur, cs[1])>>
                 \o SplitFrom(coords, i + 1, <<cs[1], coords[i + 1]>>, rect)
            ELSE <<Append(cur, cs[1]), <<cs[1], cs[2]>>>>
                 \o SplitFrom(coords, i + 1, <<cs[2], coords[i + 1]>>, rect)

\* turf.lineSplit(line, rectPoly).features; whole says what an uncut line gives
lineSplit(coords, rect, whole) ==
    LET pieces == SplitFrom(coords, 1, <<coords[1]>>, rect)
    IN IF Len(pieces) = 1 THEN (IF whole THEN <<coords>> ELSE <<>>) ELSE pieces

\* turf.length(line), in the units of the plane
LineLength(coords) ==
    LET SegLen(i) == Abs(coords[i + 1][1] - coords[i][1]) + Abs(coords[i + 1][2] - coords[i][2])
        Sum[i \in 0..(Len(coords) - 1)] == IF i = 0 THEN 0 ELSE Sum[i - 1] + SegLen(i)
    IN Sum[Len(coords) - 1]

\* the loop of lengthInsideRect: a piece counts when its vertex number
\* Math.floor(length / 2), counted from 0, is inside
InsideLength(pieces, rect) ==
    LET Sample(piece) == piece[(Len(piece) \div 2) + 1]
        Sum[i \in 0..Len(pieces)] ==
            IF i = 0 THEN 0
            ELSE Sum[i - 1] + (IF booleanPointInPolygon(Sample(pieces[i]), rect)
                               THEN LineLength(pieces[i]) ELSE 0)
    IN Sum[Len(pieces)]

\* lengthInsideRect(feature, rectPoly) >= 0.5
MajorityInside(coords, rect, whole) ==
    /\ LineLength(coords) > 0
    /\ 2 * InsideLength(lineSplit(coords, rect, whole), rect) >= LineLength(coords)

\* the layers wl.eachLayer visits that have a feature with an identifier
Children(layers) ==
    {k \in 1..Len(layers) : /\ layers[k].onMap /\ ~layers[k].nested
                            /\ layers[k].feature.id # 0}

\* selectWalkwaysInRect(wl, bounds, selection)
selectWalkwaysInRect(layers, rect, selection, whole) ==
    selection \cup {layers[k].feature.id :
                      k \in {j \in Children(layers) :
                               MajorityInside(layers[j].feature.geometry, rect, whole)}}

\* turf.booleanWithin(f, polygon)
booleanWithin(coords, rect) ==
    \A i \in 1..Len(coords) : booleanPointInPolygon(coords[i], rect)

\* the list without its first feature of identifier id
SpliceId(walkways, id) ==
    IF FindIndex(walkways, id) > 0 THEN RemoveAt(walkways, FindIndex(walkways, id))
    ELSE walkways

\* the loop of deleteWalkwaysInPolygon over toRemove[n], toRemove[n+1], ...
RECURSIVE RemoveItems(_, _, _)
RemoveItems(E, toRemove, n) ==
    IF n > Len(toRemove) THEN E
    ELSE LET k == toRemove[n]
             id == E.walkwayLayer[k].feature.id
             E1 == deleteWalkwayById(E, id)
         IN RemoveItems([E1 EXCEPT !.walkwayLayer[k].onMap = FALSE,
                                   !.walkwayFeatures = SpliceId(@, id)],
                        toRemove, n + 1)

\* deleteWalkwaysInPolygon(wl, store, polygon), without the selection
deleteWalkwaysInPolygon(E, rect) ==
    RemoveItems(E, SelectSeq([k \in 1..Len(E.walkwayLayer) |-> k],
                             LAMBDA k : /\ k \in Children(E.walkwayLayer)
                                        /\ booleanWithin(E.walkwayLayer[k].feature.geometry,
                                                         rect)),
                1)

\* the store deletes of deleteSelectedWalkways, ids[n], ids[n+1], ...
RECURSIVE DeleteIds(_, _, _)
DeleteIds(E, ids, n) ==
    IF n > Len(ids) THEN E ELSE DeleteIds(deleteWalkwayById(E, ids[n]), ids, n + 1)

\* a set of identifiers as Array.from(selection) lists them
RECURSIVE AsSeq(_)
AsSeq(ids) ==
    IF ids = {} THEN <<>>
    ELSE LET m == CHOOSE x \in ids : \A y \in ids : x <= y
         IN <<m>> \o AsSeq(ids \ {m})

\* deleteSelectedWalkways(wl, selection), without the selection
deleteSelectedWalkways(E, selection) ==
    LET E1 == DeleteIds(E, AsSeq(selection), 1)
    IN [E1 EXCEPT !.walkwayLayer =
           [k \in 1..Len(@) |->
               IF k \in Children(@) /\ @[k].feature.id \in selection
               THEN [@[k] EXCEPT !.onMap = FALSE] ELSE @[k]]]

\* the x coordinates of the outlines: none is the x of a walkway vertex
RectX == {-5, 4, 6, 15}

Rects ==
    {r \in [west : RectX, south : {-1}, east : RectX, north : {1}] : r.west < r.east}

BulkLines ==
    { << <<0, 0>>, <<10, 0>> >>, << <<10, 0>>, <<0, 0>> >>, << <<10, 0>>, <<20, 0>> >> }

BulkStores ==
    {{Feature(1, "a", FALSE, w, w)} : w \in BulkLines}
        \cup {{Feature(1, "a", FALSE, w, w), Feature(2, "b", FALSE, v, v)} :
                 w \in BulkLines, v \in BulkLines}

InitBulk ==
    /\ walkwaysFc = <<>>
    /\ graph = EmptyGraph
    /\ pc = "closed"
    /\ call = [op |-> "none"]
    /\ ret = Null
    /\ infos = <<>>
    /\ snapLimit = MAX_SNAP_METERS
    /\ store \in BulkStores
    /\ walkwayFeatures = <<>>
    /\ walkwayLayer = <<>>
    /\ segmentHandles = NoHandles
    /\ selected = 0
    /\ multiSelection = {}
    /\ nextId = MaxId(store) + 1
    /\ snapNodes = <<>>
    /\ edits = 0
    /\ ServerUnused

\* onBoxMouseUp: selectWalkwaysInRect(walkwayLayer, bounds, multiSelection)
BoxSelect(rect, whole) ==
    /\ pc = "editing"
    /\ multiSelection' = selectWalkwaysInRect(walkwayLayer, rect, multiSelection, whole)
    /\ Commit(Ed, [op |-> "rect", layer |-> 0, arg |-> rect])
    /\ UNCHANGED <<serverVars, walkwaysFc, graph, pc, ret, infos, snapLimit, segmentHandles, selected,
                   snapNodes, edits>>

\* map.once(CREATED) of startPolygonDelete: deleteWalkwaysInPolygon
PolygonDelete(rect) ==
    /\ pc = "editing"
    /\ LET E == deleteWalkwaysInPolygon(Ed, rect)
       IN /\ Commit(E, [op |-> "polygon", layer |-> 0, arg |-> rect])
          /\ multiSelection' = multiSelection \ Range(E.deleted)
    /\ UNCHANGED <<serverVars, walkwaysFc, graph, pc, ret, infos, snapLimit, segmentHandles, selected,
                   snapNodes, edits>>

\* the Delete key with a selection: deleteSelectedWalkways
DeleteSelected ==
    /\ pc = "editing"
    /\ multiSelection # {}
    /\ Commit(deleteSelectedWalkways(Ed, multiSelection),
              [op |-> "delete", layer |-> 0, arg |-> multiSelection])
    /\ multiSelection' = {}
    /\ UNCHANGED <<serverVars, walkwaysFc, graph, pc, ret, infos, snapLimit, segmentHandles, selected,
                   snapNodes, edits>>

NextBulk ==
    \/ OpenEditor
    \/ \E rect \in Rects, whole \in BOOLEAN : BoxSelect(rect, whole)
    \/ \E rect \in Rects : PolygonDelete(rect)
    \/ DeleteSelected

SpecBulk == InitBulk /\ [][NextBulk]_vars

\* the length of the part of a line on y = 0 that lies inside the rectangle
TrueInside(coords, rect) ==
    LET Over(i) ==
            LET lo == IF coords[i][1] < coords[i + 1][1] THEN coords[i][1] ELSE coords[i + 1][1]
                hi == IF coords[i][1] < coords[i + 1][1] THEN coords[i + 1][1] ELSE coords[i][1]
                from == IF lo < rect.west THEN rect.west ELSE lo
                to == IF hi > rect.east THEN rect.east ELSE hi
            IN IF to > from THEN to - from ELSE 0
        Sum[i \in 0..(Len(coords) - 1)] == IF i = 0 THEN 0 ELSE Sum[i - 1] + Over(i)
    IN Sum[Len(coords) - 1]

\* the identifiers of the walkways on the map that satisfy Test(geometry)
IdsWhere(Test(_)) ==
    {walkwayLayer[k].feature.id :
        k \in {j \in Children(walkwayLayer) : Test(walkwayLayer[j].feature.geometry)}}

\* C18: a rectangle selection puts a walkway's identifier in the selection
\* exactly when at least half of its length is inside the rectangle, and a
\* polygon delete removes a walkway exactly when it is fully contained; so a
\* walkway 40% inside is taken by neither and one between 50% and 100%
\* inside by the rectangle only.
C18_BulkPolicies ==
    [][/\ (pc = "editing" /\ call'.op = "rect") =>
             multiSelection' = multiSelection \cup
                IdsWhere(LAMBDA g : 2 * TrueInside(g, call'.arg) >= LineLength(g))
       /\ (pc = "editing" /\ call'.op = "polygon") =>
             Range(call'.deleted) =
                IdsWhere(LAMBDA g : TrueInside(g, call'.arg) = LineLength(g))]_vars


(***************************************************************************)
(* The walkway store on its own: upsertWalkway, deleteWalkwayById and      *)
(* readAllWalkways called one after another                                *)
(***************************************************************************)
\* the features handed to upsertWalkway: without an identifier, with the
\* identifier of a stored row, with an identifier no row has, without geometry
StoreInputs ==
    { Feature(0, "c", FALSE, << <<0, 0>>, <<5, 0>> >>, << <<0, 0>>, <<5, 0>> >>),
      Feature(1, "c", FALSE, << <<0, 0>>, <<5, 5>> >>, << <<0, 0>>, <<5, 5>> >>),
      Feature(2, "c", TRUE, << <<0, 0>>, <<5, 5>>, <<9, 0>> >>,
              << <<0, 0>>, <<5, 5>>, <<9, 0>> >>),
      Feature(7, "c", FALSE, << <<1, 1>>, <<5, 1>> >>, << <<1, 1>>, <<5, 1>> >>),
      Feature(0, "c", FALSE, NoControl, NoGeometry) }

StoreIds == {1, 2, 7}

InitStore ==
    /\ walkwaysFc = <<>>
    /\ graph = EmptyGraph
    /\ pc = "store"
    /\ call = [op |-> "none"]
    /\ ret = Null
    /\ infos = <<>>
    /\ snapLimit = MAX_SNAP_METERS
    /\ store \in InitialStores
    /\ walkwayFeatures = <<>>
    /\ walkwayLayer = <<>>
    /\ segmentHandles = NoHandles
    /\ selected = 0
    /\ multiSelection = {}
    /\ nextId = MaxId(store \cup {[id |-> i] : i \in StoreIds}) + 1
    /\ snapNodes = <<>>
    /\ edits = 0
    /\ ServerUnused

\* one call of the store: it leaves the editor and the routing session alone
StoreStep ==
    /\ pc = "store"
    /\ edits < MaxEdits
    /\ edits' = edits + 1
    /\ UNCHANGED <<serverVars, walkwaysFc, graph, pc, infos, snapLimit, segmentHandles, selected,
                   multiSelection, snapNodes>>

\* POST /api/walkways: res.json(await upsertWalkway(req.body))
UpsertWalkway(f) ==
    /\ StoreStep
    /\ \E E \in {upsertWalkway(Ed, f)} :
          /\ Commit(E, [op |-> "upsert", layer |-> 0, arg |-> f])
          /\ ret' = LastSaved(E)

\* DELETE /api/walkways/:id
DeleteWalkway(id) ==
    /\ StoreStep
    /\ Commit(deleteWalkwayById(Ed, id), [op |-> "deleteById", layer |-> 0, arg |-> id])
    /\ ret' = Null

\* GET /api/walkways
ReadWalkways ==
    /\ StoreStep
    /\ Commit(Ed, [op |-> "readAll", layer |-> 0, arg |-> 0])
    /\ ret' = readAllWalkways(store)

NextStore ==
    \/ \E f \in StoreInputs : UpsertWalkway(f)
    \/ \E id \in StoreIds : DeleteWalkway(id)
    \/ ReadWalkways

SpecStore == InitStore /\ [][NextStore]_vars

SaveFailures == {"unauthorized", "rejected"}

\* res.status(401).json({ error: "Unauthorized" })
Unauthorized == [error |-> "Unauthorized"]

\* saveWalkway(feature) when the request fails: what its caller gets
saveWalkway(failure) ==
    IF failure = "unauthorized" THEN [kind |-> "value", value |-> Unauthorized]
    ELSE [kind |-> "error"]

\* the coordinates handleCreated is about to save (fewer than 2: it returns
\* before any save)
DrawnCoords(E, ns, coords) ==
    IF Len(coords) < 2 THEN <<>>
    ELSE magnetizeWalkwayPolyline(coords, E.walkwayFeatures, ns, SNAP_METERS)

\* handleCreated(layer, "walkway") when its first save fails: a rejection
\* leaves the handler at the await; a returned body is pushed, and
\* L.geoJSON(body) throws on an object that is no GeoJSON, so no layer is
\* added and the handler ends there
handleCreatedSaveFails(E, failure) ==
    IF saveWalkway(failure).kind = "error" THEN E
    ELSE [E EXCEPT !.walkwayFeatures = Append(@, saveWalkway(failure).value)]

\* map.once(CREATED) with a save that fails: the handler throws, the node
\* index is not rebuilt, and the session goes no further than a reload
DrawSaveFails(coords, failure) ==
    /\ pc = "editing"
    /\ edits < MaxEdits
    /\ Len(DrawnCoords(Ed, snapNodes, coords)) >= 2
    /\ edits' = edits + 1
    /\ pc' = "failed"
    /\ Commit(handleCreatedSaveFails(Ed, failure),
              [op |-> "drawFailed", layer |-> 0, arg |-> coords])
    /\ ret' = saveWalkway(failure)
    /\ UNCHANGED <<serverVars, walkwaysFc, graph, infos, snapLimit, segmentHandles, selected,
                   multiSelection, snapNodes>>

\* the page is loaded again after a failure
Reload ==
    /\ pc = "failed"
    /\ pc' = "closed"
    /\ walkwayFeatures' = <<>>
    /\ walkwayLayer' = <<>>
    /\ snapNodes' = <<>>
    /\ call' = [op |-> "reload"]
    /\ UNCHANGED <<serverVars, walkwaysFc, graph, ret, infos, snapLimit, store, segmentHandles,
                   selected, multiSelection, nextId, edits>>

NextSave ==
    \/ OpenEditor
    \/ \E coords \in DrawInputs : DrawWalkway(coords)
    \/ \E coords \in DrawInputs, failure \in SaveFailures : DrawSaveFails(coords, failure)
    \/ Reload

SpecSave == InitEditor /\ [][NextSave]_vars

\* C22: when persisting a walkway fails, the caller of saveWalkway gets an
\* error rather than a value, and the editor adds no record to its in-memory
\* walkway list or to its map layer for that save.
C22_FailurePropagates ==
    [][(pc = "editing" /\ call'.op = "drawFailed") =>
        /\ ret'.kind = "error"
        /\ walkwayFeatures' = walkwayFeatures
        /\ walkwayLayer' = walkwayLayer]_vars

(***************************************************************************)
(* The consolidation pass                                                  *)
(***************************************************************************)
\* the graph buildWalkwayGraph has when it calls connectNearbyNodes
Unconsolidated(fc) == AddWalkways(EmptyGraph, Enrich(FilterWalkways(fc)), 1)

\* the entries the consolidation pass appended to the list of node i
Bridges(g0, g, i) ==
    SubSeq(g.adjacency[i], Len(g0.adjacency[i]) + 1, Len(g.adjacency[i]))

\* the pass added exactly one entry i -> j, of weight the distance
BridgedOnce(g0, g, i, j) ==
    /\ Cardinality({k \in 1..Len(Bridges(g0, g, i)) : Bridges(g0, g, i)[k].to = j}) = 1
    /\ \A k \in 1..Len(Bridges(g0, g, i)) :
          Bridges(g0, g, i)[k].to = j =>
              Bridges(g0, g, i)[k].weight = mapDistanceWeight(g.nodes[i], g.nodes[j])

NotBridged(g0, g, i, j) ==
    \A k \in 1..Len(Bridges(g0, g, i)) : Bridges(g0, g, i)[k].to # j

\* C23: the consolidation pass of buildWalkwayGraph bridges exactly the pairs
\* of distinct nodes whose distance is below the tolerance: for each such pair
\* one entry in both directions with weight equal to their distance, no entry
\* for any pair farther apart (a pair at the tolerance or beyond), and neither
\* the number of nodes nor the edge list changes.
C23_BridgesBelowTolerance ==
    pc \in {"built", "done"} =>
        \A g0 \in {Unconsolidated(walkwaysFc)} :
            /\ Len(graph.nodes) = Len(g0.nodes)
            /\ graph.nodes = g0.nodes
            /\ graph.segments = g0.segments
            /\ \A i \in 1..Len(graph.nodes) :
                  /\ SubSeq(graph.adjacency[i], 1, Len(g0.adjacency[i])) = g0.adjacency[i]
                  /\ \A j \in 1..Len(graph.nodes) :
                        IF i # j /\ Dist2(graph.nodes[i], graph.nodes[j])
                                       < toleranceMeters * toleranceMeters
                        THEN BridgedOnce(g0, graph, i, j)
                        ELSE NotBridged(g0, graph, i, j)

(***************************************************************************)
(* The node array over a routing session                                   *)
(***************************************************************************)
DistinctNodes(nodes) ==
    \A i, j \in 1..Len(nodes) : i # j => nodes[i] # nodes[j]

\* C24: in every graph reachable by buildWalkwayGraph followed by any number
\* of insertPointIntoGraph calls no two node indices carry equal coordinates,
\* and an index once assigned keeps its coordinate: an insertion neither
\* renumbers nor moves the nodes there are.
C24_NodesDistinctAndStable ==
    /\ [](DistinctNodes(graph.nodes))
    /\ [][pc # "idle" =>
            /\ Len(graph'.nodes) >= Len(graph.nodes)
            /\ SubSeq(graph'.nodes, 1, Len(graph.nodes)) = graph.nodes]_vars

(***************************************************************************)
(* The adjacency structure over a routing session                          *)
(***************************************************************************)
\* C25: in every graph reachable by buildWalkwayGraph followed by any number
\* of insertPointIntoGraph calls, every adjacency entry u -> v of weight w
\* has an entry v -> u of the same weight, w is not negative, and u and v are
\* indices of the node array.
C25_AdjacencyWellFormed ==
    /\ Len(graph.adjacency) = Len(graph.nodes)
    /\ \A u \in 1..Len(graph.adjacency) :
          \A k \in 1..Len(graph.adjacency[u]) :
              \A e \in {graph.adjacency[u][k]} :
                  /\ e.to \in 1..Len(graph.nodes)
                  /\ e.weight >= 0
                  /\ \E m \in 1..Len(graph.adjacency[e.to]) :
                        /\ graph.adjacency[e.to][m].to = u
                        /\ graph.adjacency[e.to][m].weight = e.weight

\* both insertions of a session have split an edge of a graph in which the
\* consolidation pass had bridged two nodes, and the bridge is still there
C25_Witness ==
    /\ pc = "endInserted"
    /\ Len(graph.nodes) = Len(buildWalkwayGraph(walkwaysFc).nodes) + 2
    /\ \E u \in 1..Len(graph.adjacency) :
          \E k \in 1..Len(graph.adjacency[u]) :
              \A n \in 1..Len(graph.segments) :
                  {graph.segments[n].a, graph.segments[n].b}
                      # {u, graph.adjacency[u][k].to}

(***************************************************************************)
(* The bend of one segment on its own                                      *)
(***************************************************************************)
\* the end points and the bend point of a segment: near, far, equal, in line
CurvePoints == {<<0, 0>>, <<20, 0>>, <<40, 0>>, <<20, 20>>, <<1, 1>>}

\* sample counts: none given, below the least, the least, the editor's own
SampleCounts == {0, 1, 2, 3, CURVE_SAMPLES}

InitCurve ==
    /\ walkwaysFc = <<>>
    /\ graph = EmptyGraph
    /\ pc = "segment"
    /\ call \in {[op |-> "none", A |-> A, bend |-> bend, B |-> B, samples |-> n] :
                    A \in CurvePoints, bend \in CurvePoints, B \in CurvePoints,
                    n \in SampleCounts}
    /\ ret = Null
    /\ infos = <<>>
    /\ snapLimit = MAX_SNAP_METERS
    /\ EditorUnused
    /\ ServerUnused

\* const smooth = catmullRom([A, bend, B], samples, alpha), and the polyline
\* replaceSegmentWithLocalCurve makes of it for the segment [A, B]
BendLocal ==
    /\ pc = "segment"
    /\ call' = [call EXCEPT !.op = "bend"]
    /\ ret' = [kind |-> "curve",
               smooth |-> catmullRom(<<call.A, call.bend, call.B>>, call.samples),
               out |-> replaceSegmentWithLocalCurve(<<call.A, call.B>>, 1, call.bend,
                                                    call.samples)]
    /\ pc' = "bent"
    /\ UNCHANGED <<serverVars, walkwaysFc, graph, infos, snapLimit, editorVars>>

NextCurve == BendLocal

SpecCurve == InitCurve /\ [][NextCurve]_vars

C27_EdgesTraversable ==
    \A n \in 1..Len(graph.segments) :
        /\ EntriesTo(graph, graph.segments[n].a, graph.segments[n].b) # <<>>
        /\ EntriesTo(graph, graph.segments[n].b, graph.segments[n].a) # <<>>

(***************************************************************************)
(* List, layer and store over an editing session                           *)
(***************************************************************************)
ListIds == {walkwayFeatures[i].id : i \in 1..Len(walkwayFeatures)}

LayerIds == {walkwayLayer[k].feature.id : k \in OnMap}

StoreIdsHeld == {r.id : r \in store}

\* C28: after any sequence of completed editor operations the identifiers in
\* the editor's in-memory walkway list, those shown on the map layer and
\* those held by the store are the same set.
C28_SameIdentifiers ==
    pc = "editing" => ListIds = LayerIds /\ LayerIds = StoreIdsHeld

(***************************************************************************)
(* The file-backed feature store (store.js, second module): every call     *)
(* reads data/features.json whole, changes the array in memory and writes  *)
(* the file whole.  Each await is a point where another call may run, so a *)
(* call is modelled as a task that takes one step per awaited file         *)
(* operation.  A file operation itself is taken as atomic.                 *)
(***************************************************************************)
MaxTasks == 2    \* calls under way at the same time

\* the identifiers makeId can give are unique: one per call
FreshBase == 10

makeIdOf(i) == FreshBase + i

FileFeature(id, name) == [id |-> id, name |-> name]

\* data/features.json before the calls: missing, empty, or holding a feature
NoFile == [exists |-> FALSE, features |-> <<>>]

FileOf(features) == [exists |-> TRUE, features |-> features]

InitialFiles == {NoFile, FileOf(<<>>), FileOf(<<FileFeature(1, "old")>>)}

\* the calls: upsertFeature(feature) and deleteFeatureById(id)
FileCalls ==
    {[op |-> "upsert", arg |-> FileFeature(id, "new")] : id \in {0, 1, 2}}
        \cup {[op |-> "delete", arg |-> FileFeature(id, "")] : id \in {1, 2}}

\* upsertFeature between its read and its write: the feature takes the given
\* identifier or a fresh one, and replaces the entry of that identifier or
\* is pushed at the end
WithIdOf(feature, i) ==
    [feature EXCEPT !.id = IF feature.id # 0 THEN feature.id ELSE makeIdOf(i)]

UpsertInto(current, withId) ==
    IF \E k \in 1..Len(current) : current[k].id = withId.id
    THEN LET idx == CHOOSE k \in 1..Len(current) :
                        /\ current[k].id = withId.id
                        /\ \A j \in 1..(k - 1) : current[j].id # withId.id
         IN  [current EXCEPT ![idx] = withId]
    ELSE Append(current, withId)

\* deleteFeatureById between its read and its write
FilterOut(current, id) ==
    LET Keep(f) == f.id # id
    IN  SelectSeq(current, Keep)

StartTask(c) == [op |-> c.op, arg |-> c.arg, pc |-> "access", current |-> <<>>]

InitFeatureFile ==
    /\ walkwaysFc = <<>>
    /\ graph = EmptyGraph
    /\ pc = "serving"
    /\ ret = <<>>
    /\ infos = <<>>
    /\ snapLimit = MAX_SNAP_METERS
    /\ EditorUnused
    /\ tablesReady = FALSE
    /\ featuresFile \in InitialFiles
    /\ tasks \in [1..MaxTasks -> {StartTask(c) : c \in FileCalls}]
    /\ call = [op |-> "serve", file |-> featuresFile]

FileStep ==
    /\ pc = "serving"
    /\ UNCHANGED <<walkwaysFc, graph, pc, call, ret, infos, snapLimit, editorVars,
                   tablesReady>>

\* ensureStore: await fs.access(DATA_PATH)
AccessStore(i) ==
    /\ FileStep
    /\ tasks[i].pc = "access"
    /\ tasks' = [tasks EXCEPT ![i].pc = IF featuresFile.exists THEN "read" ELSE "create"]
    /\ UNCHANGED featuresFile

\* ensureStore, the catch branch: mkdir, then write { features: [] }
CreateStore(i) ==
    /\ FileStep
    /\ tasks[i].pc = "create"
    /\ featuresFile' = FileOf(<<>>)
    /\ tasks' = [tasks EXCEPT ![i].pc = "read"]

\* upsertFeature: the file is read, and the array to write is made from it
UpsertRead(i) ==
    /\ FileStep
    /\ tasks[i].pc = "read"
    /\ tasks[i].op = "upsert"
    /\ tasks' = [tasks EXCEPT ![i].pc = "write",
                              ![i].current = UpsertInto(featuresFile.features,
                                                        WithIdOf(tasks[i].arg, i))]
    /\ UNCHANGED featuresFile

\* deleteFeatureById: the file is read, and the array to write is made from it
DeleteRead(i) ==
    /\ FileStep
    /\ tasks[i].pc = "read"
    /\ tasks[i].op = "delete"
    /\ tasks' = [tasks EXCEPT ![i].pc = "write",
                              ![i].current = FilterOut(featuresFile.features,
                                                       tasks[i].arg.id)]
    /\ UNCHANGED featuresFile

\* upsertFeature: await fs.writeFile(DATA_PATH, ...)
UpsertWrite(i) ==
    /\ FileStep
    /\ tasks[i].pc = "write"
    /\ tasks[i].op = "upsert"
    /\ featuresFile' = FileOf(tasks[i].current)
    /\ tasks' = [tasks EXCEPT ![i].pc = "done"]

\* deleteFeatureById: await fs.writeFile(DATA_PATH, ...)
DeleteWrite(i) ==
    /\ FileStep
    /\ tasks[i].pc = "write"
    /\ tasks[i].op = "delete"
    /\ featuresFile' = FileOf(tasks[i].current)
    /\ tasks' = [tasks EXCEPT ![i].pc = "done"]

NextFeatureFile ==
    \/ \E i \in 1..MaxTasks : AccessStore(i)
    \/ \E i \in 1..MaxTasks : CreateStore(i)
    \/ \E i \in 1..MaxTasks : UpsertRead(i)
    \/ \E i \in 1..MaxTasks : DeleteRead(i)
    \/ \E i \in 1..MaxTasks : UpsertWrite(i)
    \/ \E i \in 1..MaxTasks : DeleteWrite(i)

SpecFeatureFile == InitFeatureFile /\ [][NextFeatureFile]_vars

\* one call run alone from start to end on the file
RunAlone(file, i) ==
    LET features == IF file.exists THEN file.features ELSE <<>>
    IN  IF tasks[i].op = "upsert"
        THEN FileOf(UpsertInto(features, WithIdOf(tasks[i].arg, i)))
        ELSE FileOf(FilterOut(features, tasks[i].arg.id))

RECURSIVE RunInOrder(_, _, _)
RunInOrder(file, order, k) ==
    IF k > Len(order) THEN file
    ELSE RunInOrder(RunAlone(file, order[k]), order, k + 1)

SerialOutcomes == {RunInOrder(call.file, order, 1) : order \in Permutations(1..MaxTasks)}

AllDone == \A i \in 1..MaxTasks : tasks[i].pc = "done"

\* C29: for the file-backed feature store, under every interleaving of
\* concurrent upsertFeature and deleteFeatureById calls, the final content of
\* the file is the result of running the same calls one after another in
\* some order; two concurrent upserts of different identifiers are then both
\* in the file.
C29_CallsSerializable ==
    (pc = "serving" /\ AllDone) => featuresFile \in SerialOutcomes

(***************************************************************************)
(* The first calls of the walkway store (walkwayStore.js; the feature      *)
(* store of store.js has the same ensureTables and maybeImportFromJson).   *)
(* Every call awaits ensureTables, which creates the table, sets           *)
(* tablesReady and imports data/walkways.json into an empty table.  A call *)
(* is a task that takes one step per awaited query; the seventeen queries  *)
(* that create the table and its columns are taken as one step.            *)
(***************************************************************************)
SHOULD_SEED_FROM_JSON == TRUE

SeedLine(id, name, y) ==
    Feature(id, name, FALSE, << <<0, y>>, <<5, y>> >>, << <<0, y>>, <<5, y>> >>)

\* data/walkways.json: its features carry no properties._id, or carry one
SeedFiles ==
    { << SeedLine(0, "s1", 1), SeedLine(0, "s2", 2) >>,
      << SeedLine(1, "s1", 1), SeedLine(2, "s2", 2) >> }

SeedNames == {"s1", "s2"}

\* the calls: readAllWalkways(), upsertWalkway(feature), deleteWalkwayById(id)
SeedCalls ==
    { [op |-> "read", arg |-> Null],
      [op |-> "upsert", arg |-> SeedLine(0, "c", 3)],
      [op |-> "upsert", arg |-> SeedLine(1, "c", 3)],
      [op |-> "delete", arg |-> SeedLine(1, "", 0)] }

NotCalled(c) == [op |-> c.op, arg |-> c.arg, pc |-> "call", k |-> 1, rows |-> <<>>]

InitSeed ==
    /\ walkwaysFc = <<>>
    /\ graph = EmptyGraph
    /\ pc = "seeding"
    /\ ret = <<>>
    /\ infos = <<>>
    /\ snapLimit = MAX_SNAP_METERS
    /\ store = {}
    /\ walkwayFeatures = <<>>
    /\ walkwayLayer = <<>>
    /\ segmentHandles = NoHandles
    /\ selected = 0
    /\ multiSelection = {}
    /\ nextId = MaxId({[id |-> 1], [id |-> 2]}) + 1
    /\ snapNodes = <<>>
    /\ edits = 0
    /\ featuresFile = <<>>
    /\ tablesReady = FALSE
    /\ tasks \in [1..MaxTasks -> {NotCalled(c) : c \in SeedCalls}]
    /\ \E seed \in SeedFiles : call = [op |-> "seed", seed |-> seed]

SeedStep ==
    /\ pc = "seeding"
    /\ UNCHANGED <<walkwaysFc, graph, pc, call, ret, infos, snapLimit, walkwayFeatures,
                   walkwayLayer, segmentHandles, selected, multiSelection, snapNodes,
                   edits, featuresFile>>

\* a call begins: ensureTables returns at once when tablesReady is set, and
\* otherwise sends the first CREATE TABLE query
EnsureTables(i) ==
    /\ SeedStep
    /\ tasks[i].pc = "call"
    /\ tasks' = [tasks EXCEPT ![i].pc = IF tablesReady THEN "op" ELSE "ddl"]
    /\ UNCHANGED <<store, nextId, tablesReady>>

\* the table and its columns are there: tablesReady = true, and with seeding
\* enabled maybeImportFromJson sends its COUNT query
CreateTables(i) ==
    /\ SeedStep
    /\ tasks[i].pc = "ddl"
    /\ tablesReady' = TRUE
    /\ tasks' = [tasks EXCEPT ![i].pc = IF SHOULD_SEED_FROM_JSON THEN "count" ELSE "op"]
    /\ UNCHANGED <<store, nextId>>

\* maybeImportFromJson: a table that holds rows is left alone; for an empty
\* one the seed file is read
CountRows(i) ==
    /\ SeedStep
    /\ tasks[i].pc = "count"
    /\ tasks' = [tasks EXCEPT ![i].pc = IF Cardinality(store) > 0 \/ call.seed = <<>>
                                        THEN "op" ELSE "import"]
    /\ UNCHANGED <<store, nextId, tablesReady>>

\* maybeImportFromJson, one turn of its loop: INSERT ... ON CONFLICT (id) DO
\* NOTHING of the next seed feature under its identifier or a fresh one
ImportFeature(i) ==
    /\ SeedStep
    /\ tasks[i].pc = "import"
    /\ LET f == call.seed[tasks[i].k]
           id == IF f.id # 0 THEN f.id ELSE nextId
       IN  /\ store' = IF \E r \in store : r.id = id THEN store
                       ELSE store \cup {[f EXCEPT !.id = id]}
           /\ nextId' = IF f.id # 0 THEN nextId ELSE nextId + 1
    /\ tasks' = [tasks EXCEPT ![i].k = @ + 1,
                              ![i].pc = IF tasks[i].k = Len(call.seed) THEN "op"
                                        ELSE "import"]
    /\ UNCHANGED tablesReady

\* readAllWalkways after ensureTables: SELECT ... FROM walkways
TaskRead(i) ==
    /\ SeedStep
    /\ tasks[i].pc = "op"
    /\ tasks[i].op = "read"
    /\ tasks' = [tasks EXCEPT ![i].pc = "done", ![i].rows = readAllWalkways(store)]
    /\ UNCHANGED <<store, nextId, tablesReady>>

\* upsertWalkway after ensureTables
TaskUpsert(i) ==
    /\ SeedStep
    /\ tasks[i].pc = "op"
    /\ tasks[i].op = "upsert"
    /\ \E E \in {upsertWalkway(Ed, tasks[i].arg)} :
          /\ store' = E.store
          /\ nextId' = E.nextId
          /\ tasks' = [tasks EXCEPT ![i].pc = "done", ![i].rows = E.saved]
    /\ UNCHANGED tablesReady

\* deleteWalkwayById after ensureTables
TaskDelete(i) ==
    /\ SeedStep
    /\ tasks[i].pc = "op"
    /\ tasks[i].op = "delete"
    /\ store' = deleteWalkwayById(Ed, tasks[i].arg.id).store
    /\ tasks' = [tasks EXCEPT ![i].pc = "done"]
    /\ UNCHANGED <<nextId, tablesReady>>

NextSeed ==
    \/ \E i \in 1..MaxTasks : EnsureTables(i)
    \/ \E i \in 1..MaxTasks : CreateTables(i)
    \/ \E i \in 1..MaxTasks : CountRows(i)
    \/ \E i \in 1..MaxTasks : ImportFeature(i)
    \/ \E i \in 1..MaxTasks : TaskRead(i)
    \/ \E i \in 1..MaxTasks : TaskUpsert(i)
    \/ \E i \in 1..MaxTasks : TaskDelete(i)

SpecSeed == InitSeed /\ [][NextSeed]_vars

\* no seed feature is stored under two identifiers
SeedImportedOnce ==
    \A r \in store : \A q \in store :
        (r.name \in SeedNames /\ r.name = q.name) => r.id = q.id

\* some call has imported a part of the seed file and not yet all of it
ImportPartlyDone ==
    \E j \in 1..MaxTasks : tasks[j].pc = "import" /\ tasks[j].k > 1

\* the step at which call i reads the table
ReadsTable(i) ==
    /\ tasks[i].op = "read"
    /\ tasks[i].pc = "op"
    /\ tasks'[i].pc = "done"

\* C30: with seeding enabled and an initially empty table, under every
\* interleaving of concurrent first calls to readAllWalkways, upsertWalkway
\* and deleteWalkwayById, no seed feature ends up stored under two
\* identifiers, and no call reads the table while the seed import is only
\* partly done.
C30_SeedOnceAndWhole ==
    /\ [](pc = "seeding" => SeedImportedOnce)
    /\ [][pc = "seeding" =>
            \A i \in 1..MaxTasks : ReadsTable(i) => ~ImportPartlyDone]_vars
====
